---- MODULE Spec2Model ----
(***************************************************************************)
(* Model of the gotify desktop client's runtime core: the message cache    *)
(* (src-tauri/src/messages.rs, main.rs) and the stream session supervisor  *)
(* (src-tauri/src/stream.rs).                                              *)
(***************************************************************************)
EXTENDS Integers, Sequences, FiniteSets, TLC

(***************************************************************************)
(* Bounds of the model                                                     *)
(***************************************************************************)
\* message ids drawn by the cache specifications: 1..MaxId
MaxId == 2
\* date strings drawn by the cache specifications: 0..MaxDate (0 does not parse)
MaxDate == 2
\* number of distinct instants a date string can denote
MaxTs == 2
\* largest cache_limit setting drawn: 1..MaxLimit
MaxLimit == 3
\* supervisor tasks spawned in one run of the stream specifications
MaxTasks == 2
\* failures the server and the network inject in one run of SpecStream
MaxAttempts == 1
\* failures they inject in one run of SpecBackoff
MaxErrors == 7
\* failures they inject in one run of SpecLiveness
MaxSendErrors == 1
\* messages in one page of a server response: 0..MaxPage
MaxPage == 2
\* the page size asked of the server is MAX_API_PAGE_LIMIT scaled down to
\* MaxApiPage, so that a fetch of MaxLimit messages takes several pages
MaxApiPage == 2
\* cache limits of the snapshot fetch: 1..MaxFetchLimit, more than two pages
MaxFetchLimit == 5
\* persistence writer threads spawned
MaxWriters == 2
\* text frames that do not parse
MaxMisses == 2
\* calls of the Notifier for one id
MaxCalls == 2
\* times the cache file is corrupted
MaxCorruptions == 2
\* persistence writes of one process
MaxWrites == 2
\* seconds by which the clock of SpecLiveness advances in one step
ClockStep == 15
\* the time at which the clock of SpecLiveness stops
MaxNow == 150

(***************************************************************************)
(* Program constants                                                       *)
(***************************************************************************)
MAX_CACHE_LIMIT == 2000
MAX_API_PAGE_LIMIT == 200
\* run_stream_loop: the first backoff and its ceiling, in seconds
BACKOFF_START_SECS == 1
BACKOFF_MAX_SECS == 30
STREAM_LIVENESS_CHECK_INTERVAL_SECS == 15
STREAM_LIVENESS_IDLE_SECS == 90
STREAM_LIVENESS_PING_GRACE_SECS == 30

None == 0
\* None of an Option<u64> that holds a time
NoTime == 0 - 1

Ids == 1..MaxId
Dates == 0..MaxDate
Limits == 1..MaxLimit
\* priority/title/message of a CachedMessage, as one value
Texts == {"t"}
\* app_id/app/app_icon of a CachedMessage, as one value
Apps == {"a"}

\* CachedMessage
CachedMessage(ids, dates, texts, apps) ==
    [id : ids, date : dates, text : texts, app : apps]

Msgs == CachedMessage(Ids, Dates, Texts, Apps)

\* sequences over S of length 0..n
SeqsUpTo(S, n) == UNION {[1..k -> S] : k \in 0..n}

\* the fetched sets handed to replace_message_cache: fetch_recent_messages
\* stops pushing once it holds cache_limit messages
FreshSets == SeqsUpTo(Msgs, MaxLimit)

VARIABLES
    cache,            \* AppState.messages
    cache_limit,      \* StoredSettings.cache_limit
    last_message_id,  \* RuntimeState.last_message_id (None = 0)
    last,             \* the last handler call and its observable effects
    cmp_in,           \* the messages handed to cached_message_cmp
    cmp_out,          \* what cached_message_cmp returned for them
    runtime,          \* AppState.runtime: the session fields of RuntimeState
    tasks,            \* the supervisor tasks (run_stream_loop), by spawn order
    callers,          \* the threads running the stream commands
    env,              \* the world outside: the clock and the failures to come
    fetch,            \* a call of fetch_recent_messages
    disk,             \* the config directory and the process that uses it
    notifier,         \* the live deliveries and the Notifier calls they made
    writers,          \* the persistence writer threads and the files they write
    sync,             \* the server's messages, a delete_message command and the
                      \* snapshot fetches that run beside it
    locks             \* the mutexes of AppState and the threads that take them

cacheVars == <<cache, cache_limit, last_message_id, last>>
cmpVars == <<cmp_in, cmp_out>>
streamVars == <<runtime, tasks, callers, env>>
auxVars == <<notifier, writers, sync, locks>>
ioVars == <<fetch, disk, auxVars>>
vars == <<cache, cache_limit, last_message_id, last, cmp_in, cmp_out,
          runtime, tasks, callers, env, fetch, disk, notifier, writers, sync,
          locks>>

(***************************************************************************)
(* The global ordering rule                                                *)
(***************************************************************************)
\* chrono::DateTime::parse_from_rfc3339(&date).map(|v| v.timestamp()).ok():
\* date string 0 (and below) does not parse; strings d and d + MaxTs spell
\* the same instant
ParseTs(d) == IF d <= 0 THEN None ELSE ((d - 1) % MaxTs) + 1

\* Ord::cmp on integers
IntCmp(x, y) == IF x < y THEN "Less" ELSE IF x > y THEN "Greater" ELSE "Equal"

cached_message_cmp(a, b) ==
    LET ta == ParseTs(a.date)
        tb == ParseTs(b.date)
    IN  CASE tb # None /\ ta # None /\ tb # ta -> IntCmp(tb, ta)
          [] tb # None /\ ta = None -> "Less"
          [] tb = None /\ ta # None -> "Greater"
          [] OTHER -> IntCmp(b.id, a.id)

\* position at which a stable sort places x in the sorted sequence s:
\* before the first element that x is Less than
RECURSIVE InsertPos(_, _, _)
InsertPos(x, s, i) ==
    IF i > Len(s) THEN i
    ELSE IF cached_message_cmp(x, s[i]) = "Less" THEN i
    ELSE InsertPos(x, s, i + 1)

InsertAt(s, i, x) == SubSeq(s, 1, i - 1) \o <<x>> \o SubSeq(s, i, Len(s))

\* a sort_by that leaves the sequence as it is
sort_by_none(s) == s

\* Vec::sort_by(cached_message_cmp): a stable sort
RECURSIVE SortFrom(_, _, _)
SortFrom(s, i, acc) ==
    IF i > Len(s) THEN acc
    ELSE SortFrom(s, i + 1, InsertAt(acc, InsertPos(s[i], acc, 1), s[i]))

sort_by(s) == SortFrom(s, 1, <<>>)

\* Vec::dedup_by_key(|m| m.id): drops an element whose id equals the id of
\* the element kept just before it
RECURSIVE DedupFrom(_, _, _)
DedupFrom(s, i, acc) ==
    IF i > Len(s) THEN acc
    ELSE IF Len(acc) > 0 /\ acc[Len(acc)].id = s[i].id
         THEN DedupFrom(s, i + 1, acc)
         ELSE DedupFrom(s, i + 1, Append(acc, s[i]))

dedup_by_key(s) == DedupFrom(s, 1, <<>>)

\* a truncate that drops nothing
truncate_none(s, n) == s

\* Vec::truncate(n)
truncate(s, n) == IF Len(s) > n THEN SubSeq(s, 1, n) ELSE s

\* limit.clamp(1, MAX_CACHE_LIMIT)
normalize_cache_limit(limit) ==
    IF limit < 1 THEN 1 ELSE IF limit > MAX_CACHE_LIMIT THEN MAX_CACHE_LIMIT ELSE limit

desired_cache_limit == normalize_cache_limit(cache_limit)

CacheIds(s) == {s[i].id : i \in 1..Len(s)}

\* iter().position(|m| m.id == id): first index with that id, 0 when absent
position(s, id) ==
    IF id \in CacheIds(s)
    THEN CHOOSE i \in 1..Len(s) : s[i].id = id /\ \A j \in 1..(i - 1) : s[j].id # id
    ELSE 0

RemoveAt(s, i) == SubSeq(s, 1, i - 1) \o SubSeq(s, i + 1, Len(s))

\* a retain that drops only the first entry with the id
retain_not_first(s, id) ==
    IF \E i \in 1..Len(s) : s[i].id = id
    THEN LET p == CHOOSE i \in 1..Len(s) : s[i].id = id /\ \A j \in 1..(i - 1) : s[j].id # id
         IN  SubSeq(s, 1, p - 1) \o SubSeq(s, p + 1, Len(s))
    ELSE s

\* Vec::retain(|m| m.id != id)
RECURSIVE retain_not(_, _)
retain_not(s, id) ==
    IF s = <<>> THEN <<>>
    ELSE IF Head(s).id = id THEN retain_not(Tail(s), id)
    ELSE <<Head(s)>> \o retain_not(Tail(s), id)

\* A call of fetch_recent_messages:
\*   pc        "idle" (no call under way), "request" (a page request is
\*             to be answered), "awaiting" (the request was sent to a server
\*             that never answers), "commit" (the loop is left, the tail of
\*             the function is to run)
\*   limit     the local cache_limit
\*   fresh, since   the locals of those names (since: None or an id)
\*   requests  the page requests sent by this call
\*   stalled   the loop was left because the cursor did not advance
\*   err       what the last page request came back with: "none" for a page
\*   out       how the last call ended: "none", "ok", "err"
NoFetch ==
    [pc |-> "idle", limit |-> 0, fresh |-> <<>>, since |-> None, requests |-> 0,
     stalled |-> FALSE, err |-> "none", out |-> "none"]

\* The config directory and the process that uses it:
\*   proc      "down" (not running), "up" (setup done), "failed" (setup
\*             returned an error)
\*   file      what messages.json holds: "absent", "json" (a message array),
\*             "bad_json" (text that does not decode as a message array),
\*             "bad_utf8" (bytes that are no UTF-8 text)
\*   msgs      the message array when file = "json"
\*   gen       which corruption the content of a corrupt file comes from
\*   backups   the files messages.corrupt-N.json: [suffix |-> N, gen |-> ..]
\*   counter   FILE_SUFFIX_COUNTER of the running process
\*   load      what the last load_messages_from_disk did: "none", "absent",
\*             "read" (file decoded), "fresh" (corrupt file, backup made),
\*             "fresh_kept" (corrupt file, rename failed), "err"
Disk(proc) ==
    [proc |-> proc, file |-> "absent", msgs |-> <<>>, gen |-> 0, backups |-> {},
     counter |-> 0, load |-> "none"]

\* the process is up, nothing on disk
NoDisk == Disk("up")

\* The live deliveries of the stream:
\*   delivered  the ids delivered on the stream so far
\*   calls      how many times maybe_notify_message was called, by id
\*   misses     the text frames that did not parse
\*   later      a text frame that parsed was handled after one that did not
NoNotifier ==
    [delivered |-> {}, calls |-> [id \in Ids |-> 0], misses |-> 0, later |-> FALSE]

\* The persistence writers of one process and the files they write. A file
\* is <<>> when it does not exist, and else its two halves <<h1, h2>>, a half
\* being <<>> (not written) or <<snapshot>> (the bytes of that snapshot).
\*   threads  the writer threads spawned, [pc, suffix, snap]: pc is "open",
\*            "first", "second", "rename" or "done"
\*   tmp      the files messages.tmp-N, by N
\*   file     messages.json
\*   snaps    the cache snapshots captured for a writer so far
\*   counter  FILE_SUFFIX_COUNTER
Suffixes == 0..MaxWriters
NoWriters ==
    [threads |-> <<>>, tmp |-> [n \in Suffixes |-> <<>>], file |-> <<>>,
     snaps |-> {}, counter |-> 0]

\* The server and the calls that talk to it beside the stream:
\*   server    the ids of the messages the server holds
\*   calls     the calls of fetch_recent_messages under way: "sync", spawned
\*             by the session's sync interval, and "refresh", spawned by
\*             delete_message; each with the locals of NoFetch
\*   del       the delete_message command: pc "idle" or "answered" (the
\*             server has answered with success), the id, and how the last
\*             command ended
\*   removed   the ids delete_message has removed from the cache
Slots == {"sync", "refresh"}
NoDelete == [pc |-> "idle", id |-> None, out |-> "none"]
NoSync ==
    [server |-> {}, calls |-> [k \in Slots |-> NoFetch], del |-> NoDelete, removed |-> {}]

\* AppState (model.rs 15-20): four mutexes; the first three are the state
\* locks. A mutex is free (None) or held by one thread.
StateLocks == {"runtime", "messages", "app_meta"}
Mutexes == StateLocks \cup {"tray_pause_menu"}
MaxThreads == 2
LockThreads == 1..MaxThreads
NoLocks == [holder |-> [l \in Mutexes |-> None],
            thr |-> [th \in LockThreads |-> [op |-> "idle", pos |-> 0]]]

IdleAux ==
    notifier = NoNotifier /\ writers = NoWriters /\ sync = NoSync /\ locks = NoLocks

IdleIo == fetch = NoFetch /\ disk = NoDisk /\ IdleAux

(***************************************************************************)
(* Stream session supervisor                                               *)
(***************************************************************************)
Tasks == 1..MaxTasks

\* "sync" runs the commands Tauri serializes on the main thread (stop_stream,
\* restart_stream, recover_stream); "async" runs the async command
\* start_stream on the runtime's pool
Callers == {"sync", "async"}

CommandsOf(c) == IF c = "sync" THEN {"stop", "restart", "recover"} ELSE {"start"}

\* A task is the future of run_stream_loop:
\*   pc            where it stands
\*   epoch         task_epoch
\*   stop          the value in its stop_rx
\*   backoff_secs  the local of that name
\*   cleanup       what its exit cleanup did: "pending", "cleared", "skipped"
\*   errors        the error exits of stream_once it has recorded
\*   sleep_secs    the raw backoff of the sleep under way (0 when not asleep)
\*   jitter_ms     the jitter of the sleep under way
\*   left          the stop check that made it leave the loop: "top", "ok",
\*                 "err", or "no" while it is in the loop
\*   ended         what ended its last session attempt: "stop" (returned Ok),
\*                 "connect", "closed", "read_error", "ended", "pong_send",
\*                 "ping_send", "liveness" (returned Err), or "no" before
\*                 the first attempt has ended
\*   last_activity_at, pending_ping_since   the locals of stream_once
\*   liveness_at   the time of the next tick of liveness_interval
\*   probes        the liveness pings sent since the last inbound frame
\*   cancelled     an inbound frame has found a liveness ping pending
\* RuntimeState::default(); stop_tx holds the task whose watch channel the
\* sender feeds, None when there is no sender; phase_epoch records the epoch
\* of the session whose code wrote connection_state last (None for a write
\* of stop_stream_internal)
InitRuntime ==
    /\ runtime = [stop_tx |-> None, stream_epoch |-> 0,
                  connection_state |-> "Disconnected", phase_epoch |-> None,
                  should_run |-> FALSE,
                  last_error |-> FALSE, backoff_seconds |-> 0,
                  reconnect_attempts |-> 0, last_connected_at |-> NoTime,
                  last_stream_event_at |-> NoTime]
    /\ tasks = [t \in Tasks |->
                  [pc |-> "none", epoch |-> 0, stop |-> FALSE,
                   backoff_secs |-> BACKOFF_START_SECS, cleanup |-> "pending",
                   errors |-> 0, sleep_secs |-> 0, jitter_ms |-> 0, left |-> "no",
                   ended |-> "no", last_activity_at |-> 0,
                   pending_ping_since |-> NoTime, liveness_at |-> 0,
                   probes |-> 0, cancelled |-> FALSE]]
    /\ callers = [c \in Callers |->
                    [op |-> "idle", pc |-> "idle", task |-> None, ret |-> "none"]]

\* the clock reads `now` seconds; the server and the network will fail
\* `faults` more times; header_ok tells whether the stored token is accepted
\* by HeaderValue::from_str (it holds no control character)
EnvWith(now, faults, header_ok) == [now |-> now, faults |-> faults, header_ok |-> header_ok]
Env(now, faults) == EnvWith(now, faults, TRUE)

InitStream == InitRuntime /\ env = Env(0, MaxAttempts)

\* an emit_connection_state that writes nothing
emit_lost(status, epoch) == runtime

\* the write of emit_connection_state(app, status) under the runtime lock
emit_connection_state(status, epoch) ==
    [runtime EXCEPT !.connection_state = status, !.phase_epoch = epoch]

Goto(c, pc) == callers' = [callers EXCEPT ![c].pc = pc]
\* the command returns; ret keeps how it ended until the next command:
\* "ok", "err" (a setup error) or "noop" (start found a stop handle)
Return(c, ret) ==
    callers' = [callers EXCEPT ![c] =
                  [op |-> "idle", pc |-> "idle", task |-> None, ret |-> ret]]
At(t, pc) == tasks[t].pc = pc
Step(t, pc) == tasks' = [tasks EXCEPT ![t].pc = pc]

\* a command is invoked
Invoke(c, op) ==
    /\ callers[c].pc = "idle"
    /\ callers' = [callers EXCEPT ![c] =
                     [op |-> op,
                      pc |-> CASE op = "start" -> "start_setup"
                               [] op = "recover" -> "recover_read"
                               [] OTHER -> "stop_lock",
                      task |-> None, ret |-> "none"]]
    /\ UNCHANGED <<runtime, tasks>>

\* a recovery that never returns early
skips_recovery_never(should_run, connection_state) == FALSE

\* recover_stream: the two early returns
skips_recovery(should_run, connection_state) ==
    \/ ~should_run
    \/ connection_state \in {"Connected", "Connecting"}

\* recover_stream: the read of should_run and connection_state
recover_stream_read(c) ==
    /\ callers[c].pc = "recover_read"
    /\ IF skips_recovery(runtime.should_run, runtime.connection_state)
       THEN Return(c, "ok")
       ELSE Goto(c, "stop_lock")
    /\ UNCHANGED <<runtime, tasks>>

\* a send that never reaches the receiver
send_lost(ts, stop_tx) == ts

\* watch::Sender::send(true) on the channel of the task stop_tx names
send_true(ts, stop_tx) == [ts EXCEPT ![stop_tx].stop = TRUE]

\* stop_stream_internal: the section under the runtime lock
stop_stream_internal_lock(c) ==
    /\ callers[c].pc = "stop_lock"
    /\ tasks' = IF runtime.stop_tx # None
                THEN send_true(tasks, runtime.stop_tx)
                ELSE tasks
    /\ runtime' = [runtime EXCEPT !.stop_tx = None, !.should_run = FALSE,
                                  !.backoff_seconds = 0]
    /\ Goto(c, "stop_emit")

\* stop_stream_internal: emit_connection_state(app, "Disconnected")
stop_stream_internal_emit(c) ==
    /\ callers[c].pc = "stop_emit"
    /\ runtime' = emit_connection_state("Disconnected", None)
    /\ IF callers[c].op = "stop" THEN Return(c, "ok") ELSE Goto(c, "start_setup")
    /\ UNCHANGED tasks

\* start_stream_internal: read_settings, normalize_base_url and the token;
\* any of them can fail, and the call then returns the error
start_stream_internal_setup(c) ==
    /\ callers[c].pc = "start_setup"
    /\ \E ok \in BOOLEAN : IF ok THEN Goto(c, "start_lock") ELSE Return(c, "err")
    /\ UNCHANGED <<runtime, tasks>>

\* an epoch that is never advanced
NextEpoch_same(epoch) == epoch

\* stream_epoch.wrapping_add(1), far from the wrap of u64
NextEpoch(epoch) == epoch + 1

\* a test for a stop handle that never finds one
is_some_never(stop_tx) == FALSE

\* Option::is_some
is_some(stop_tx) == stop_tx # None

\* start_stream_internal: the section under the runtime lock
start_stream_internal_lock(c) ==
    /\ callers[c].pc = "start_lock"
    /\ IF is_some(runtime.stop_tx)
       THEN Return(c, "noop") /\ UNCHANGED <<runtime, tasks>>
       ELSE \E n \in Tasks :
              /\ tasks[n].pc = "none"
              /\ \A m \in Tasks : m < n => tasks[m].pc # "none"
              /\ runtime' = [runtime EXCEPT
                               !.stop_tx = n,
                               !.stream_epoch = NextEpoch(runtime.stream_epoch),
                               !.should_run = TRUE,
                               !.last_error = FALSE,
                               !.backoff_seconds = 0,
                               !.reconnect_attempts = 0]
              /\ tasks' = [tasks EXCEPT ![n].pc = "created",
                                        ![n].epoch = NextEpoch(runtime.stream_epoch)]
              /\ callers' = [callers EXCEPT ![c].pc = "start_emit", ![c].task = n]

\* start_stream_internal: emit_connection_state(app, "Connecting")
start_stream_internal_emit(c) ==
    /\ callers[c].pc = "start_emit"
    /\ runtime' = emit_connection_state("Connecting", tasks[callers[c].task].epoch)
    /\ Goto(c, "start_spawn")
    /\ UNCHANGED tasks

\* start_stream_internal: tauri::async_runtime::spawn of run_stream_loop
start_stream_internal_spawn(c) ==
    /\ callers[c].pc = "start_spawn"
    /\ Step(callers[c].task, "check_top")
    /\ Return(c, "ok")
    /\ UNCHANGED runtime

\* a read of the stop signal that never sees it set
borrow_unset(t) == FALSE

\* a read of the stop signal that always sees it set
borrow_always(t) == TRUE

\* *stop_rx.borrow()
borrow(t) == tasks[t].stop

\* run_stream_loop: the stop check at the top of the loop
loop_check_stop(t) ==
    /\ At(t, "check_top")
    /\ tasks' = IF borrow(t)
                THEN [tasks EXCEPT ![t].pc = "cleanup", ![t].left = "top"]
                ELSE [tasks EXCEPT ![t].pc = "emit_connecting"]
    /\ UNCHANGED <<runtime, callers>>

\* run_stream_loop: emit_connection_state(&app, "Connecting")
loop_emit_connecting(t) ==
    /\ At(t, "emit_connecting")
    /\ runtime' = emit_connection_state("Connecting", tasks[t].epoch)
    /\ Step(t, "connect")
    /\ UNCHANGED callers

\* the server or the network fails once more
MayFail == env.faults > 0
Fail == env' = [env EXCEPT !.faults = env.faults - 1]

\* stream_once: the request is built (a token that is no header value
\* returns Err, at every attempt) and the connection attempted; a timeout or
\* a refused connection returns Err
stream_once_connect(t) ==
    /\ At(t, "connect")
    /\ IF ~env.header_ok
       THEN /\ tasks[t].errors < MaxErrors
            /\ tasks' = [tasks EXCEPT ![t].pc = "after_err", ![t].ended = "config"]
            /\ UNCHANGED env
       ELSE \/ Step(t, "mark_connected") /\ UNCHANGED env
            \/ /\ MayFail /\ Fail
               /\ tasks' = [tasks EXCEPT ![t].pc = "after_err", ![t].ended = "connect"]
    /\ UNCHANGED <<runtime, callers>>

\* stream_once: now read from the clock, and last_connected_at,
\* last_stream_event_at, last_error and backoff_seconds written under the
\* runtime lock once connected
stream_once_mark_connected(t) ==
    /\ At(t, "mark_connected")
    /\ runtime' = [runtime EXCEPT !.last_error = FALSE, !.backoff_seconds = 0,
                                  !.last_connected_at = env.now,
                                  !.last_stream_event_at = env.now]
    /\ tasks' = [tasks EXCEPT ![t].pc = "emit_connected",
                              ![t].last_activity_at = env.now]
    /\ UNCHANGED callers

\* stream_once: emit_connection_state(app, "Connected"), then the intervals
\* created and their first, immediate tick consumed, and the locals of the
\* select loop initialised
stream_once_emit_connected(t) ==
    /\ At(t, "emit_connected")
    /\ runtime' = emit_connection_state("Connected", tasks[t].epoch)
    /\ tasks' = [tasks EXCEPT ![t].pc = "session",
                              ![t].liveness_at = env.now + STREAM_LIVENESS_CHECK_INTERVAL_SECS,
                              ![t].pending_ping_since = NoTime,
                              ![t].probes = 0]
    /\ UNCHANGED callers

\* a receiver that counts a value sent before the select loop as seen
stop_rx_changed_missed(t) == FALSE

\* stop_rx.changed(): ready once a value has been sent that the receiver has
\* not marked as seen; the task reads the channel with borrow() only, which
\* marks nothing, so a value sent at any earlier time makes it ready
stop_rx_changed(t) == tasks[t].stop

\* stream_once: the select loop observes the stop signal, closes and returns Ok
stream_once_stopped(t) ==
    /\ At(t, "session")
    /\ stop_rx_changed(t)
    /\ borrow(t)
    /\ tasks' = [tasks EXCEPT ![t].pc = "after_ok", ![t].ended = "stop"]
    /\ UNCHANGED <<runtime, callers>>

\* what ws_stream.next() yields when the stream fails: Some(Ok(Close)),
\* Some(Err(_)) and None
StreamFailures == {"closed", "read_error", "ended"}

\* stream_once: a close frame, a read error or the end of the stream
\* returns Err
stream_once_failed(t, incoming) ==
    /\ At(t, "session")
    /\ MayFail /\ Fail
    /\ tasks' = [tasks EXCEPT ![t].pc = "after_err", ![t].ended = incoming]
    /\ UNCHANGED <<runtime, callers>>

\* run_stream_loop: the Ok arm, its stop check and the
\* emit_connection_state(&app, "Disconnected") behind it; stream_once returns
\* Ok only from the branch that has read true from stop_rx, and the channel
\* never goes back to false
loop_ok_arm(t) ==
    /\ At(t, "after_ok")
    /\ IF borrow(t)
       THEN /\ tasks' = [tasks EXCEPT ![t].pc = "cleanup", ![t].left = "ok"]
            /\ UNCHANGED runtime
       ELSE Step(t, "check_top") /\ runtime' = emit_connection_state("Disconnected", tasks[t].epoch)
    /\ UNCHANGED callers

\* run_stream_loop: the stop check of the Err arm
loop_err_check_stop(t) ==
    /\ At(t, "after_err")
    /\ tasks' = IF borrow(t)
                THEN [tasks EXCEPT ![t].pc = "cleanup", ![t].left = "err"]
                ELSE [tasks EXCEPT ![t].pc = "emit_backoff"]
    /\ UNCHANGED <<runtime, callers>>

\* run_stream_loop: emit_connection_state(&app, "Backoff")
loop_err_emit(t) ==
    /\ At(t, "emit_backoff")
    /\ runtime' = emit_connection_state("Backoff", tasks[t].epoch)
    /\ Step(t, "record_error")
    /\ UNCHANGED callers

\* values of Duration::subsec_millis() of the system clock: 0..999
SubsecMillis == {0, 499, 500, 999}

\* d.subsec_millis() % 500
jitter(subsec_millis) == subsec_millis % 500

\* a counter that is left where it was
saturating_add_none(n, d) == n

\* u64::saturating_add, far from u64::MAX
saturating_add(n, d) == n + d

\* run_stream_loop: last_error, backoff_seconds and reconnect_attempts
\* written under the runtime lock, then jitter_ms computed and the sleep of
\* backoff_secs seconds and jitter_ms milliseconds begun
loop_err_record(t) ==
    /\ At(t, "record_error")
    /\ runtime' = [runtime EXCEPT
                     !.last_error = TRUE,
                     !.backoff_seconds = tasks[t].backoff_secs,
                     !.reconnect_attempts = saturating_add(runtime.reconnect_attempts, 1)]
    /\ \E ms \in SubsecMillis :
          tasks' = [tasks EXCEPT ![t].pc = "sleep",
                                 ![t].errors = tasks[t].errors + 1,
                                 ![t].sleep_secs = tasks[t].backoff_secs,
                                 ![t].jitter_ms = jitter(ms)]
    /\ UNCHANGED callers

\* a doubling without the ceiling
NextBackoff_uncapped(secs) == secs * 2

\* a delay that starts again after every sleep
NextBackoff_restart(secs) == BACKOFF_START_SECS

\* std::cmp::min(backoff_secs.saturating_mul(2), 30)
NextBackoff(secs) ==
    IF secs * 2 < BACKOFF_MAX_SECS THEN secs * 2 ELSE BACKOFF_MAX_SECS

\* run_stream_loop: the backoff sleep ends and the delay doubles
loop_err_sleep(t) ==
    /\ At(t, "sleep")
    /\ tasks' = [tasks EXCEPT ![t].pc = "check_top",
                              ![t].sleep_secs = 0, ![t].jitter_ms = 0,
                              ![t].backoff_secs = NextBackoff(tasks[t].backoff_secs)]
    /\ UNCHANGED <<runtime, callers>>

\* an exit cleanup that clears the terminal state whatever the epoch
exit_guard_none(task_epoch) == TRUE

\* run_stream_loop: the test `runtime.stream_epoch == task_epoch`
exit_guard(task_epoch) == runtime.stream_epoch = task_epoch

\* run_stream_loop: the exit cleanup under the runtime lock
loop_exit_cleanup(t) ==
    /\ At(t, "cleanup")
    /\ IF exit_guard(tasks[t].epoch)
       THEN /\ runtime' = [runtime EXCEPT !.stop_tx = None, !.should_run = FALSE,
                                          !.backoff_seconds = 0]
            /\ tasks' = [tasks EXCEPT ![t].pc = "exit_emit", ![t].cleanup = "cleared"]
       ELSE /\ runtime' = runtime
            /\ tasks' = [tasks EXCEPT ![t].pc = "exit_emit", ![t].cleanup = "skipped"]
    /\ UNCHANGED callers

\* run_stream_loop: the final emit_connection_state(&app, "Disconnected")
loop_exit_emit(t) ==
    /\ At(t, "exit_emit")
    /\ runtime' = emit_connection_state("Disconnected", tasks[t].epoch)
    /\ Step(t, "done")
    /\ UNCHANGED callers

\* the supervisor touches neither cache nor comparator
IdleData == UNCHANGED <<cacheVars, cmpVars, ioVars>>
Idle == IdleData /\ UNCHANGED env

InvokeCommand == \E c \in Callers : \E op \in CommandsOf(c) : Invoke(c, op) /\ Idle
RecoverRead == \E c \in Callers : recover_stream_read(c) /\ Idle
StopLock == \E c \in Callers : stop_stream_internal_lock(c) /\ Idle
StopEmit == \E c \in Callers : stop_stream_internal_emit(c) /\ Idle
StartSetup == \E c \in Callers : start_stream_internal_setup(c) /\ Idle
StartLock == \E c \in Callers : start_stream_internal_lock(c) /\ Idle
StartEmit == \E c \in Callers : start_stream_internal_emit(c) /\ Idle
StartSpawn == \E c \in Callers : start_stream_internal_spawn(c) /\ Idle
LoopCheckStop == \E t \in Tasks : loop_check_stop(t) /\ Idle
LoopEmitConnecting == \E t \in Tasks : loop_emit_connecting(t) /\ Idle
Connect == \E t \in Tasks : stream_once_connect(t) /\ IdleData
MarkConnected == \E t \in Tasks : stream_once_mark_connected(t) /\ Idle
EmitConnected == \E t \in Tasks : stream_once_emit_connected(t) /\ Idle
SessionStopped == \E t \in Tasks : stream_once_stopped(t) /\ Idle
SessionFailed ==
    \E t \in Tasks, incoming \in StreamFailures : stream_once_failed(t, incoming) /\ IdleData
LoopOkArm == \E t \in Tasks : loop_ok_arm(t) /\ Idle
LoopErrCheckStop == \E t \in Tasks : loop_err_check_stop(t) /\ Idle
LoopErrEmit == \E t \in Tasks : loop_err_emit(t) /\ Idle
LoopErrRecord == \E t \in Tasks : loop_err_record(t) /\ Idle
LoopErrSleep == \E t \in Tasks : loop_err_sleep(t) /\ Idle
LoopExitCleanup == \E t \in Tasks : loop_exit_cleanup(t) /\ Idle
LoopExitEmit == \E t \in Tasks : loop_exit_emit(t) /\ Idle

\* the steps of the commands once invoked
CommandSteps ==
    \/ StopLock \/ StopEmit
    \/ StartSetup \/ StartLock \/ StartEmit \/ StartSpawn

\* the steps of the supervisor tasks
TaskSteps ==
    \/ LoopCheckStop \/ LoopEmitConnecting \/ Connect \/ MarkConnected
    \/ EmitConnected \/ SessionStopped \/ SessionFailed
    \/ LoopOkArm
    \/ LoopErrCheckStop \/ LoopErrEmit \/ LoopErrRecord \/ LoopErrSleep
    \/ LoopExitCleanup \/ LoopExitEmit

NextStream == InvokeCommand \/ RecoverRead \/ CommandSteps \/ TaskSteps

\* one session: start_stream is invoked once, stop_stream at any time
StartOnce ==
    /\ \A t \in Tasks : tasks[t].pc = "none"
    /\ Invoke("async", "start") /\ Idle
StopAnyTime == Invoke("sync", "stop") /\ Idle

NextOneSession == StartOnce \/ StopAnyTime \/ CommandSteps \/ TaskSteps

(***************************************************************************)
(* Message cache handlers                                                  *)
(***************************************************************************)
\* the sort / dedup / sort / truncate of replace_message_cache
Normalized(fresh, limit) ==
    truncate(sort_by(dedup_by_key(sort_by(fresh))), limit)

\* a comparison that also looks at the application fields
Changed_with_app(cur, normalized) == cur # normalized

\* a `changed` test that never finds a difference
Changed_never(cur, normalized) == FALSE

\* a `changed` test that always finds a difference
Changed_always(cur, normalized) == TRUE

\* the `changed` test of replace_message_cache
Changed(cur, normalized) ==
    \/ Len(cur) # Len(normalized)
    \/ \E i \in 1..Len(cur) :
          \/ cur[i].id # normalized[i].id
          \/ cur[i].date # normalized[i].date
          \/ cur[i].text # normalized[i].text

\* what replace_message_cache leaves in the cache, and its `changed` flag
Replaced(cur, fresh, limit) ==
    LET normalized == Normalized(fresh, limit)
        changed == Changed(cur, normalized)
    IN  [cache |-> IF changed THEN normalized ELSE cur, changed |-> changed,
         normalized |-> normalized]

\* the record of a handler call: its arguments, what it found and what it did
\*   op        the handler
\*   id        the message id it was called with (None when it takes none)
\*   existed   the id was in the cache before the call
\*   changed   replace_message_cache's `changed` flag
\*   mutated   the cache after the call differs from the cache before
\*   truncated the call dropped entries beyond cache_limit
\*   persisted the call spawned a persistence write
\*   events    the events the call emitted
\*   notify    the call went on to maybe_notify_message
\*   ok        the call returned Ok
\*   same      replace_message_cache only: the normalized fetched set equalled the cache
\*   omit      replace_message_cache only: the call follows the upsert of a live
\*             message the fetched set omits; "in" when that message is within
\*             the first cache_limit entries of cache and fetched set merged,
\*             "out" when it is not, "none" otherwise
\*   again     remove only: the previous call was a remove of the same id
Call(op, id) ==
    [op |-> op, id |-> id, existed |-> FALSE, changed |-> FALSE, mutated |-> FALSE,
     truncated |-> FALSE, persisted |-> FALSE, events |-> {}, notify |-> FALSE,
     ok |-> TRUE, same |-> FALSE, omit |-> "none", again |-> FALSE]

InitCache ==
    /\ cache = <<>>
    /\ cache_limit \in Limits
    /\ last_message_id = None
    /\ last = Call("init", None)

\* a notifier test that ignores whether the id was cached
should_notify_existing(allow_notification, existed) == allow_notification

\* `allow_notification && !existed`, the guard of maybe_notify_message
should_notify(allow_notification, existed) == allow_notification /\ ~existed

\* cache_and_emit_message(app, message, allow_notification)
cache_and_emit_message(message, allow_notification) ==
    \E pos \in {position(cache, message.id)} :
        LET existed == pos # 0
            removed == IF existed THEN RemoveAt(cache, pos) ELSE cache
            inserted == <<message>> \o removed
        IN  /\ cache' = truncate(inserted, desired_cache_limit)
            /\ last_message_id' = message.id
            /\ last' = [Call("upsert", message.id) EXCEPT
                          !.existed = existed,
                          !.mutated = (cache' # cache),
                          !.truncated = (Len(cache') < Len(inserted)),
                          !.persisted = TRUE,
                          !.events = {"message-received"},
                          !.notify = should_notify(allow_notification, existed)]
            /\ UNCHANGED cache_limit

\* the live message the previous call upserted, None when it was no upsert
LiveId == IF last.op = "upsert" THEN last.id ELSE None

\* cache and fetched set merged, sorted, deduplicated and truncated
MergeTruncate(cur, fresh, limit) == Normalized(cur \o fresh, limit)

\* replace_message_cache(app, fresh)
replace_message_cache(fresh) ==
    \E r \in {Replaced(cache, fresh, desired_cache_limit)} :
        LET omitted == /\ LiveId # None
                       /\ LiveId \in CacheIds(cache)
                       /\ LiveId \notin CacheIds(fresh)
        IN  /\ cache' = r.cache
            /\ last' = [Call("reconcile", IF omitted THEN LiveId ELSE None) EXCEPT
                          !.changed = r.changed,
                          !.mutated = (cache' # cache),
                          !.persisted = r.changed,
                          !.events = IF r.changed
                                     THEN {"messages-synced", "messages-updated"}
                                     ELSE {},
                          !.same = (r.normalized = cache),
                          !.omit = IF ~omitted THEN "none"
                                   ELSE IF LiveId \in CacheIds(MergeTruncate(
                                               cache, fresh, desired_cache_limit))
                                        THEN "in" ELSE "out"]
            /\ UNCHANGED <<cache_limit, last_message_id>>

\* remove_message_from_cache(app, message_id)
remove_message_from_cache(message_id) ==
    \E retained \in {retain_not(cache, message_id)} :
        /\ cache' = retained
        /\ last' = [Call("remove", message_id) EXCEPT
                      !.existed = (message_id \in CacheIds(cache)),
                      !.mutated = (retained # cache),
                      !.persisted = TRUE,
                      !.events = {"messages-synced", "messages-updated"},
                      !.again = (last.op = "remove" /\ last.id = message_id)]
        /\ UNCHANGED <<cache_limit, last_message_id>>

\* save_settings(.., cache_limit = Some(limit), ..)
save_settings(limit) ==
    /\ cache_limit' = normalize_cache_limit(limit)
    /\ last' = Call("settings", None)
    /\ UNCHANGED <<cache, last_message_id>>

Upsert ==
    \E m \in Msgs : cache_and_emit_message(m, TRUE) /\ UNCHANGED <<cmpVars, streamVars, ioVars>>
Reconcile ==
    \E fresh \in FreshSets : replace_message_cache(fresh) /\ UNCHANGED <<cmpVars, streamVars, ioVars>>
Remove ==
    \E id \in Ids : remove_message_from_cache(id) /\ UNCHANGED <<cmpVars, streamVars, ioVars>>
SaveSettings ==
    \E l \in Limits : save_settings(l) /\ UNCHANGED <<cmpVars, streamVars, ioVars>>

\* no comparison under way
IdleCmp == cmp_in = <<>> /\ cmp_out = <<>>

Init == InitCache /\ IdleCmp /\ InitStream /\ IdleIo

NextCache == Upsert \/ Reconcile \/ Remove \/ SaveSettings

\* the message cache under every handler that touches it
SpecCache == Init /\ [][NextCache]_vars

\* the message cache under live messages only
SpecUpsert == Init /\ [][Upsert]_vars

\* the stream commands and the supervisor tasks they spawn
InitSupervisor == Init /\ cache_limit = MaxLimit

SpecStream == InitSupervisor /\ [][NextStream]_vars

\* one session under as many failures as the backoff takes to reach its
\* ceiling and stay there
InitBackoff ==
    /\ InitCache /\ cache_limit = MaxLimit
    /\ IdleCmp /\ IdleIo
    /\ InitRuntime /\ env = Env(0, MaxErrors)

SpecBackoff == InitBackoff /\ [][NextOneSession]_vars

\* the same, with the async runtime running every task that can take a step:
\* a sleep ends, a connection attempt completes or times out
SpecBackoffFair == SpecBackoff /\ WF_vars(TaskSteps)

\* one session, with a stored token that is or is not usable as a header
InitConfig ==
    /\ InitCache /\ cache_limit = MaxLimit
    /\ IdleCmp /\ IdleIo
    /\ InitRuntime /\ \E header_ok \in BOOLEAN : env = EnvWith(0, MaxAttempts, header_ok)

SpecConfig == InitConfig /\ [][NextOneSession]_vars

(***************************************************************************)
(* Live deliveries and the Notifier                                        *)
(***************************************************************************)
\* stream_once, a text frame that parses: cache_and_emit_message(app, message,
\* true); the delivery and the call of maybe_notify_message it makes are
\* recorded. Every message passes the pause, priority and quiet-hours filters
\* of maybe_notify_message.
deliver(message) ==
    /\ notifier.calls[message.id] < MaxCalls
    /\ cache_and_emit_message(message, TRUE)
    /\ notifier' = [notifier EXCEPT
                       !.delivered = notifier.delivered \cup {message.id},
                       !.calls = [notifier.calls EXCEPT ![message.id] =
                                     IF last'.notify THEN @ + 1 ELSE @]]

Calm == UNCHANGED <<cmpVars, streamVars, fetch, disk, writers, sync, locks>>

Deliver == \E m \in Msgs : deliver(m) /\ Calm

NextNotify == Deliver \/ Reconcile \/ Remove

\* live deliveries interleaved with reconciliations and removals
SpecNotify == InitSupervisor /\ [][NextNotify]_vars

(***************************************************************************)
(* The snapshot fetch                                                      *)
(***************************************************************************)
\* the messages of the pages SpecFetch draws
WireMsgs == CachedMessage(Ids, {0, 1}, Texts, Apps)

\* what a page request can come back with: a failure of the transport, a
\* non-success status, a body that does not decode, or a page of messages;
\* or nothing at all ("silent"): the client of the request is built by
\* reqwest::Client::new(), which sets no timeout, so `.send().await` on a
\* server that accepts the request and never answers does not resolve
FetchErrors == {"transport", "status", "decode"}
Pages == SeqsUpTo(WireMsgs, MaxPage)
Response(err, messages) == [err |-> err, messages |-> messages]
Responses ==
    {Response(e, <<>>) : e \in FetchErrors \cup {"silent"}}
        \cup {Response("none", p) : p \in Pages}

\* convert_wire_message(app, item)
convert_wire_message(item) ==
    [id |-> item.id, date |-> item.date, text |-> item.text, app |-> item.app]

Min(a, b) == IF a < b THEN a ELSE b

\* MAX_API_PAGE_LIMIT within the bounds of the model
api_page_limit == Min(MAX_API_PAGE_LIMIT, MaxApiPage)

\* the `for item in json.messages` loop: items are taken until fresh holds
\* cache_limit messages; acc is [fresh, min_id_in_page, page_count]
RECURSIVE PushPage(_, _, _, _)
PushPage(page, i, acc, limit) ==
    IF i > Len(page) THEN acc
    ELSE LET next == [fresh |-> Append(acc.fresh, convert_wire_message(page[i])),
                      min_id_in_page |-> IF acc.min_id_in_page = None THEN page[i].id
                                         ELSE Min(acc.min_id_in_page, page[i].id),
                      page_count |-> acc.page_count + 1]
         IN  IF Len(next.fresh) >= limit THEN next
             ELSE PushPage(page, i + 1, next, limit)

\* since == Some(min_id)
cursor_stalled(since, min_id) == since = min_id

\* a failed request that goes on to the tail of the function
Failed_commits(f) == [f EXCEPT !.pc = "commit"]

\* the `?` and the `return Err(..)` of the loop: the call ends
Failed(f) == [f EXCEPT !.pc = "idle", !.out = "err"]

\* fetch_recent_messages: the locals initialised and the loop entered
fetch_begin ==
    /\ fetch.pc = "idle"
    /\ fetch' = [NoFetch EXCEPT !.pc = IF 0 < desired_cache_limit THEN "request" ELSE "commit",
                                !.limit = desired_cache_limit]
    /\ UNCHANGED cacheVars

\* fetch_recent_messages: one turn of the loop, from the response of the
\* request to the loop test
fetch_page(response) ==
    /\ fetch.pc = "request"
    /\ IF response.err = "silent"
       THEN fetch' = [fetch EXCEPT !.requests = fetch.requests + 1, !.pc = "awaiting",
                                   !.err = response.err]
       ELSE IF response.err # "none"
       THEN fetch' = Failed([fetch EXCEPT !.requests = fetch.requests + 1,
                                          !.err = response.err])
       ELSE \E limit \in {Min(fetch.limit - Len(fetch.fresh), api_page_limit)} :
            \E got \in {PushPage(response.messages, 1,
                                 [fresh |-> fetch.fresh, min_id_in_page |-> None,
                                  page_count |-> 0], fetch.limit)} :
              LET sent == [fetch EXCEPT !.requests = fetch.requests + 1]
                  left(f) == [f EXCEPT !.pc = "commit"]
              IN  fetch' =
                    IF response.messages = <<>> THEN left(sent)
                    ELSE IF cursor_stalled(fetch.since, got.min_id_in_page)
                    THEN left([sent EXCEPT !.fresh = got.fresh, !.stalled = TRUE])
                    ELSE IF got.page_count < limit \/ ~(Len(got.fresh) < fetch.limit)
                    THEN left([sent EXCEPT !.fresh = got.fresh,
                                           !.since = got.min_id_in_page])
                    ELSE [sent EXCEPT !.fresh = got.fresh, !.since = got.min_id_in_page]
    /\ UNCHANGED cacheVars

\* fetch_recent_messages: the sort, dedup, sort and truncate of fresh, and
\* replace_message_cache(app, fresh)
fetch_commit ==
    /\ fetch.pc = "commit"
    /\ replace_message_cache(Normalized(fetch.fresh, fetch.limit))
    /\ fetch' = [fetch EXCEPT !.pc = "idle", !.out = "ok"]

Quiet == UNCHANGED <<cmpVars, streamVars, disk, auxVars>>

FetchBegin == fetch_begin /\ Quiet
FetchPage == \E response \in Responses : fetch_page(response) /\ Quiet
FetchCommit == fetch_commit /\ Quiet

\* live messages arriving while fetches run
LiveUpsert ==
    \E m \in WireMsgs : cache_and_emit_message(m, TRUE) /\ UNCHANGED <<cmpVars, streamVars, ioVars>>

NextFetch == FetchBegin \/ FetchPage \/ FetchCommit \/ LiveUpsert

InitFetch ==
    /\ cache = <<>>
    /\ cache_limit \in 1..MaxFetchLimit
    /\ last_message_id = None
    /\ last = Call("init", None)
    /\ IdleCmp /\ InitStream /\ IdleIo

\* snapshot fetches, one at a time, against any server
SpecFetch == InitFetch /\ [][NextFetch]_vars

\* the same, where the runtime keeps polling the future of the call: a
\* response that has arrived is taken and the tail of the function runs.
\* FetchCommit is enabled exactly at pc = "commit", so its weak fairness is
\* written as: the call does not stay there for ever.
NextFetchAlone == FetchBegin \/ FetchPage \/ FetchCommit

InitFetchSmall ==
    /\ InitCache /\ cache_limit = MaxLimit
    /\ IdleCmp /\ InitStream /\ IdleIo

SpecFetchFair ==
    /\ InitFetchSmall /\ [][NextFetchAlone]_vars
    /\ WF_vars(FetchPage) /\ []<>(fetch.pc # "commit")

\* the fields of a message that convert_wire_message resolves from the
\* application metadata (app, app_icon) and the fields replace_message_cache
\* compares (priority, title, message), each with two values
RichMsgs == CachedMessage(Ids, {0, 1}, {"t", "u"}, {"a", "b"})

\* snapshot fetches whose pages differ in every field of a message
FetchPageRich ==
    \E page \in SeqsUpTo(RichMsgs, MaxPage) : fetch_page(Response("none", page)) /\ Quiet

NextFetchRich == FetchBegin \/ FetchPageRich \/ FetchCommit

InitFetchRich ==
    /\ InitCache /\ cache_limit = MaxPage
    /\ IdleCmp /\ InitStream /\ IdleIo

SpecFetchRich == InitFetchRich /\ [][NextFetchRich]_vars

(***************************************************************************)
(* The cache file                                                          *)
(***************************************************************************)
\* a suffix source that hands every caller the same suffix
unique_time_suffix_same(d) == 0

\* unique_time_suffix(): FILE_SUFFIX_COUNTER.fetch_add(1, Relaxed); the
\* counter is a static initialised to 0 in every process
unique_time_suffix(d) == d.counter

\* fs::rename(from, to) onto a backup name: an existing file of that name is
\* replaced
rename_backup(backups, suffix, gen) ==
    {b \in backups : b.suffix # suffix} \cup {[suffix |-> suffix, gen |-> gen]}

\* load_messages_from_disk(app): the disk after the call and the result,
\* <<messages>> for Ok(messages) and <<>> for Err(..)
load_messages_from_disk(d, rename_ok) ==
    IF d.file = "absent"
    THEN [disk |-> [d EXCEPT !.load = "absent"], result |-> << <<>> >>]
    ELSE IF d.file = "bad_utf8"
    THEN [disk |-> [d EXCEPT !.load = "err"], result |-> <<>>]
    ELSE IF d.file = "json"
    THEN [disk |-> [d EXCEPT !.load = "read"], result |-> <<d.msgs>>]
    ELSE LET suffix == unique_time_suffix(d)
             taken == [d EXCEPT !.counter = d.counter + 1]
         IN  IF rename_ok
             THEN [disk |-> [taken EXCEPT !.file = "absent",
                                          !.backups = rename_backup(d.backups, suffix, d.gen),
                                          !.load = "fresh"],
                   result |-> << <<>> >>]
             ELSE [disk |-> [taken EXCEPT !.load = "fresh_kept"], result |-> << <<>> >>]

\* main, setup: the process starts with FILE_SUFFIX_COUNTER = 0 and an empty
\* AppState, loads the cache file and hydrates the cache with it; an Err of
\* the load is returned from setup
setup ==
    /\ disk.proc = "down"
    /\ \E rename_ok \in BOOLEAN :
       \E loaded \in {load_messages_from_disk([disk EXCEPT !.counter = 0], rename_ok)} :
          IF loaded.result = <<>>
          THEN /\ disk' = [loaded.disk EXCEPT !.proc = "failed"]
               /\ cache' = <<>>
               /\ last' = [Call("hydrate", None) EXCEPT !.ok = FALSE]
          ELSE /\ disk' = [loaded.disk EXCEPT !.proc = "up"]
               /\ cache' = loaded.result[1]
               /\ last' = Call("hydrate", None)
    /\ UNCHANGED <<cache_limit, last_message_id>>

\* a live message; the persistence write it spawns has written
\* (persist_current_cache_async, persist_messages_to_path: the snapshot goes
\* to messages.tmp-N, which is renamed onto messages.json)
live_persisted(message) ==
    /\ disk.proc = "up"
    /\ disk.counter < MaxWrites
    /\ cache_and_emit_message(message, TRUE)
    /\ disk' = [disk EXCEPT !.file = "json", !.msgs = cache', !.counter = disk.counter + 1]

\* the process ends, after setup or after a failed setup
quit ==
    /\ disk.proc \in {"up", "failed"}
    /\ disk' = [disk EXCEPT !.proc = "down"]
    /\ cache' = <<>>
    /\ last' = Call("init", None)
    /\ last_message_id' = None
    /\ UNCHANGED cache_limit

\* while the process is down the cache file is damaged: cut short, or
\* overwritten with bytes that are no text
corrupt(kind) ==
    /\ disk.proc = "down"
    /\ disk.gen < MaxCorruptions
    /\ disk' = [disk EXCEPT !.file = kind, !.msgs = <<>>, !.gen = disk.gen + 1]
    /\ UNCHANGED cacheVars

Still == UNCHANGED <<cmpVars, streamVars, fetch, auxVars>>

Setup == setup /\ Still
LivePersisted == \E m \in WireMsgs : live_persisted(m) /\ Still
Quit == quit /\ Still
Corrupt == \E kind \in {"bad_json", "bad_utf8"} : corrupt(kind) /\ Still

NextDisk == Setup \/ LivePersisted \/ Quit \/ Corrupt

InitDisk ==
    /\ InitCache /\ cache_limit = MaxLimit
    /\ IdleCmp /\ InitStream
    /\ fetch = NoFetch /\ disk = Disk("down") /\ IdleAux

\* runs of the program, one after the other, over one config directory
SpecDisk == InitDisk /\ [][NextDisk]_vars

(***************************************************************************)
(* Persistence writers                                                     *)
(***************************************************************************)
\* thread::spawn(move || persist_messages_to_path(&cache_path, &snapshot)):
\* the snapshot cloned under the cache lock goes to a new thread
spawn_writer(snapshot) ==
    [writers EXCEPT !.threads = Append(@, [pc |-> "open", suffix |-> 0, snap |-> snapshot]),
                    !.snaps = @ \cup {snapshot}]

\* a cache mutation that persists: cache_and_emit_message or
\* remove_message_from_cache, with the writer it spawns
mutate_and_persist ==
    /\ Len(writers.threads) < MaxWriters
    /\ \/ \E m \in WireMsgs : cache_and_emit_message(m, TRUE)
       \/ \E id \in Ids : remove_message_from_cache(id)
    /\ last'.persisted
    /\ writers' = spawn_writer(cache')

WriterAt(w, pc) == w \in 1..Len(writers.threads) /\ writers.threads[w].pc = pc

\* persist_messages_to_path: tmp_path takes the next suffix, and fs::write
\* creates the file or truncates the one of that name
writer_open(w) ==
    /\ WriterAt(w, "open")
    /\ \E suffix \in {unique_time_suffix(writers)} :
         writers' = [writers EXCEPT !.counter = @ + 1,
                                    !.threads[w].suffix = suffix,
                                    !.threads[w].pc = "first",
                                    !.tmp[suffix] = << <<>>, <<>> >>]

\* fs::write: the bytes go out in two writes through the thread's own handle
writer_write(w) ==
    \/ /\ WriterAt(w, "first")
       /\ writers' = [writers EXCEPT
                         !.threads[w].pc = "second",
                         !.tmp[writers.threads[w].suffix] =
                             IF @ = <<>> THEN @ ELSE << <<writers.threads[w].snap>>, @[2] >>]
    \/ /\ WriterAt(w, "second")
       /\ writers' = [writers EXCEPT
                         !.threads[w].pc = "rename",
                         !.tmp[writers.threads[w].suffix] =
                             IF @ = <<>> THEN @ ELSE << @[1], <<writers.threads[w].snap>> >>]

\* fs::write fails part way (disk full): the `?` returns, the temp file stays
writer_fail(w) ==
    /\ WriterAt(w, "first") \/ WriterAt(w, "second")
    /\ writers' = [writers EXCEPT !.threads[w].pc = "done"]

\* fs::rename(&tmp_path, path): the temp file becomes messages.json in one
\* step; with no temp file of that name the rename fails
writer_rename(w) ==
    /\ WriterAt(w, "rename")
    /\ LET suffix == writers.threads[w].suffix
       IN  writers' = IF writers.tmp[suffix] = <<>>
                      THEN [writers EXCEPT !.threads[w].pc = "done"]
                      ELSE [writers EXCEPT !.threads[w].pc = "done",
                                           !.file = writers.tmp[suffix],
                                           !.tmp[suffix] = <<>>]

Rest == UNCHANGED <<cmpVars, streamVars, fetch, disk, notifier, sync, locks>>

MutateAndPersist == mutate_and_persist /\ Rest
WriterOpen == \E w \in 1..MaxWriters : writer_open(w) /\ UNCHANGED cacheVars /\ Rest
WriterWrite == \E w \in 1..MaxWriters : writer_write(w) /\ UNCHANGED cacheVars /\ Rest
WriterFail == \E w \in 1..MaxWriters : writer_fail(w) /\ UNCHANGED cacheVars /\ Rest
WriterRename == \E w \in 1..MaxWriters : writer_rename(w) /\ UNCHANGED cacheVars /\ Rest

NextWriters == MutateAndPersist \/ WriterOpen \/ WriterWrite \/ WriterFail \/ WriterRename

\* cache mutations and the writer threads they spawn, in any interleaving
SpecWriters == InitSupervisor /\ [][NextWriters]_vars

(***************************************************************************)
(* delete_message and the snapshot fetches beside it                       *)
(***************************************************************************)
\* the message the server holds under an id
ServerMsg(id) == [id |-> id, date |-> 0, text |-> "t", app |-> "a"]

\* the server's messages in descending id
RECURSIVE Descending(_)
Descending(ids) ==
    IF ids = {} THEN <<>>
    ELSE LET top == CHOOSE x \in ids : \A y \in ids : y <= x
         IN  <<ServerMsg(top)>> \o Descending(ids \ {top})

\* GET /message?limit={limit}&since={since}: the newest `limit` messages with
\* an id below the cursor
serve(server, limit, since) ==
    LET all == Descending({id \in server : since = None \/ id < since})
    IN  SubSeq(all, 1, Min(limit, Len(all)))

\* fetch_recent_messages: the locals initialised and the loop entered
fetch_started ==
    [NoFetch EXCEPT !.pc = IF 0 < desired_cache_limit THEN "request" ELSE "commit",
                    !.limit = desired_cache_limit]

\* fetch_recent_messages: one turn of the loop of the call with locals f
fetch_turn(f, response) ==
    IF response.err # "none"
    THEN Failed([f EXCEPT !.requests = f.requests + 1, !.err = response.err])
    ELSE LET limit == Min(f.limit - Len(f.fresh), api_page_limit)
             got == PushPage(response.messages, 1,
                             [fresh |-> f.fresh, min_id_in_page |-> None,
                              page_count |-> 0], f.limit)
             sent == [f EXCEPT !.requests = f.requests + 1]
             left(g) == [g EXCEPT !.pc = "commit"]
         IN  IF response.messages = <<>> THEN left(sent)
             ELSE IF cursor_stalled(f.since, got.min_id_in_page)
             THEN left([sent EXCEPT !.fresh = got.fresh, !.stalled = TRUE])
             ELSE IF got.page_count < limit \/ ~(Len(got.fresh) < f.limit)
             THEN left([sent EXCEPT !.fresh = got.fresh, !.since = got.min_id_in_page])
             ELSE [sent EXCEPT !.fresh = got.fresh, !.since = got.min_id_in_page]

\* stream_once, the sync interval ticks: a call of fetch_recent_messages is
\* spawned
sync_begin ==
    /\ sync.calls["sync"].pc = "idle"
    /\ sync' = [sync EXCEPT !.calls["sync"] = fetch_started]
    /\ UNCHANGED cacheVars

\* a call sends its page request; the server answers from what it holds now,
\* or the request fails
sync_page(k) ==
    /\ sync.calls[k].pc = "request"
    /\ \E f \in {sync.calls[k]} :
       \E response \in
             {Response(e, <<>>) : e \in FetchErrors}
                 \cup {Response("none",
                                serve(sync.server,
                                      Min(f.limit - Len(f.fresh), api_page_limit),
                                      f.since))} :
          sync' = [sync EXCEPT !.calls[k] = fetch_turn(f, response)]
    /\ UNCHANGED cacheVars

\* the tail of a call: replace_message_cache with what it fetched
sync_commit(k) ==
    /\ sync.calls[k].pc = "commit"
    /\ replace_message_cache(Normalized(sync.calls[k].fresh, sync.calls[k].limit))
    /\ sync' = [sync EXCEPT !.calls[k].pc = "idle", !.calls[k].out = "ok"]

\* delete_message: DELETE /message/{id} answered with a success status or
\* 404; the server no longer holds the message
delete_send(id) ==
    /\ sync.del.pc = "idle"
    /\ sync.calls["refresh"].pc = "idle"
    /\ sync' = [sync EXCEPT !.server = @ \ {id},
                            !.del = [pc |-> "answered", id |-> id, out |-> "none"]]
    /\ UNCHANGED cacheVars

\* delete_message: the request fails or is answered with another status; the
\* command returns Err
delete_fail(id) ==
    /\ sync.del.pc = "idle"
    /\ sync' = [sync EXCEPT !.del = [pc |-> "idle", id |-> id, out |-> "err"]]
    /\ UNCHANGED cacheVars

\* delete_message after the answer: remove_message_from_cache, then the
\* refresh call of fetch_recent_messages spawned
delete_remove ==
    /\ sync.del.pc = "answered"
    /\ remove_message_from_cache(sync.del.id)
    /\ sync' = [sync EXCEPT
                  !.removed = IF sync.del.id \in CacheIds(cache)
                              THEN @ \cup {sync.del.id} ELSE @,
                  !.calls["refresh"] = fetch_started,
                  !.del = [pc |-> "idle", id |-> sync.del.id, out |-> "ok"]]

Apart == UNCHANGED <<cmpVars, streamVars, fetch, disk, notifier, writers, locks>>

SyncBegin == sync_begin /\ Apart
SyncPage == \E k \in Slots : sync_page(k) /\ Apart
SyncCommit == \E k \in Slots : sync_commit(k) /\ Apart
DeleteSend == \E id \in Ids : delete_send(id) /\ Apart
DeleteFail == \E id \in Ids : delete_fail(id) /\ Apart
DeleteRemove == delete_remove /\ Apart

NextDelete ==
    SyncBegin \/ SyncPage \/ SyncCommit \/ DeleteSend \/ DeleteFail \/ DeleteRemove

InitDelete ==
    /\ InitCache /\ cache_limit = MaxLimit
    /\ IdleCmp /\ InitStream
    /\ fetch = NoFetch /\ disk = NoDisk
    /\ notifier = NoNotifier /\ writers = NoWriters /\ locks = NoLocks
    /\ \E server \in SUBSET Ids : sync = [NoSync EXCEPT !.server = server]

\* delete_message commands beside periodic snapshot fetches
SpecDelete == InitDelete /\ [][NextDelete]_vars

(***************************************************************************)
(* The select loop of a session                                            *)
(***************************************************************************)
\* u64::saturating_sub
saturating_sub(a, b) == IF a > b THEN a - b ELSE 0

\* mark_stream_activity(app, at, source)
mark_stream_activity(at) == [runtime EXCEPT !.last_stream_event_at = at]

\* the select loop's bookkeeping for an inbound frame that is no close frame
Activity(t) ==
    [tasks EXCEPT ![t].last_activity_at = env.now,
                  ![t].pending_ping_since = NoTime,
                  ![t].probes = 0,
                  ![t].cancelled = tasks[t].cancelled \/ tasks[t].pending_ping_since # NoTime]

\* a text frame: ok tells whether it decodes as a message, msg the message
TextFrame(ok, msg) == [ok |-> ok, msg |-> msg]

\* a parser that takes every payload for a message
parse_stream_message_any(text) == <<text.msg>>

\* messages::parse_stream_message(app, text): Some(message) as <<message>>,
\* None as <<>>
parse_stream_message(text) == IF text.ok THEN <<text.msg>> ELSE <<>>

\* stream_once: Some(Ok(Message::Text(text)))
stream_once_text(t, text) ==
    /\ At(t, "session")
    /\ tasks' = Activity(t)
    /\ runtime' = mark_stream_activity(env.now)
    /\ IF parse_stream_message(text) # <<>>
       THEN cache_and_emit_message(parse_stream_message(text)[1], TRUE)
       ELSE UNCHANGED cacheVars
    /\ UNCHANGED <<callers, env, cmpVars>>

\* stream_once: Some(Ok(Message::Ping(payload))); the pong is sent back, and
\* a failed send returns Err
stream_once_ping(t) ==
    /\ At(t, "session")
    /\ runtime' = mark_stream_activity(env.now)
    /\ \/ tasks' = Activity(t) /\ UNCHANGED env
       \/ /\ MayFail /\ Fail
          /\ tasks' = [Activity(t) EXCEPT ![t].pc = "after_err", ![t].ended = "pong_send"]
    /\ UNCHANGED callers

\* stream_once: Some(Ok(Message::Pong(_))) and Some(Ok(_))
stream_once_other(t) ==
    /\ At(t, "session")
    /\ tasks' = Activity(t)
    /\ runtime' = mark_stream_activity(env.now)
    /\ UNCHANGED <<callers, env>>

\* the time of the tick of an interval after the one due at `at`, the ticks
\* missed until `now` skipped
NextTick(at, now, period) == at + period * ((saturating_sub(now, at) \div period) + 1)

\* an idle test with a threshold one check interval short
is_idle_early(now, last_activity_at) ==
    ~(saturating_sub(now, last_activity_at)
        < STREAM_LIVENESS_IDLE_SECS - STREAM_LIVENESS_CHECK_INTERVAL_SECS)

\* an idle test that always finds the connection silent
is_idle_always(now, last_activity_at) == TRUE

\* !(event_now.saturating_sub(last_activity_at) < STREAM_LIVENESS_IDLE_SECS)
is_idle(now, last_activity_at) ==
    ~(saturating_sub(now, last_activity_at) < STREAM_LIVENESS_IDLE_SECS)

\* stream_once: a tick of liveness_interval
stream_once_liveness(t) ==
    /\ At(t, "session")
    /\ env.now >= tasks[t].liveness_at
    /\ \E next \in {NextTick(tasks[t].liveness_at, env.now,
                             STREAM_LIVENESS_CHECK_INTERVAL_SECS)} :
        IF ~is_idle(env.now, tasks[t].last_activity_at)
        THEN tasks' = [tasks EXCEPT ![t].liveness_at = next] /\ UNCHANGED env
        ELSE IF tasks[t].pending_ping_since = NoTime
        THEN \/ /\ tasks' = [tasks EXCEPT ![t].liveness_at = next,
                                          ![t].pending_ping_since = env.now,
                                          ![t].probes = tasks[t].probes + 1]
                /\ UNCHANGED env
             \/ /\ MayFail /\ Fail
                /\ tasks' = [tasks EXCEPT ![t].pc = "after_err",
                                          ![t].ended = "ping_send"]
        ELSE IF saturating_sub(env.now, tasks[t].pending_ping_since)
                    >= STREAM_LIVENESS_PING_GRACE_SECS
        THEN /\ tasks' = [tasks EXCEPT ![t].pc = "after_err", ![t].ended = "liveness"]
             /\ UNCHANGED env
        ELSE tasks' = [tasks EXCEPT ![t].liveness_at = next] /\ UNCHANGED env
    /\ UNCHANGED <<runtime, callers>>

\* the clock moves on; the time that passes while no session is connected
\* is not counted
Advance ==
    /\ env.now < MaxNow
    /\ \E t \in Tasks : At(t, "session")
    /\ env' = [env EXCEPT !.now = env.now + ClockStep]
    /\ UNCHANGED <<runtime, tasks, callers>>
    /\ IdleData

\* the text frames of SpecLiveness: one that does not decode, one message
LiveTexts ==
    {TextFrame(ok, [id |-> 1, date |-> 1, text |-> "t", app |-> "a"]) : ok \in BOOLEAN}

FrameText ==
    \E t \in Tasks, text \in LiveTexts : stream_once_text(t, text) /\ UNCHANGED ioVars
FramePing == \E t \in Tasks : stream_once_ping(t) /\ IdleData
FrameOther == \E t \in Tasks : stream_once_other(t) /\ IdleData
LivenessTick == \E t \in Tasks : stream_once_liveness(t) /\ IdleData

\* the select loop's branches for inbound frames and the liveness timer
SessionSteps == FrameText \/ FramePing \/ FrameOther \/ LivenessTick

NextLiveness == NextOneSession \/ SessionSteps \/ Advance

\* one session with a clock, frames and liveness checks
InitLiveness ==
    /\ InitCache /\ cache_limit = MaxLimit
    /\ IdleCmp /\ IdleIo
    /\ InitRuntime /\ env = Env(0, MaxSendErrors)

SpecLiveness == InitLiveness /\ [][NextLiveness]_vars

\* the text frames of SpecFrames: every message, decoding or not
StreamTexts == {TextFrame(ok, m) : ok \in BOOLEAN, m \in WireMsgs}

\* a text frame is handled, and which kind it was is recorded
FrameTextSeen ==
    \E t \in Tasks, text \in StreamTexts :
        /\ text.ok \/ notifier.misses < MaxMisses
        /\ stream_once_text(t, text)
        /\ notifier' = IF text.ok
                       THEN [notifier EXCEPT !.later = notifier.misses > 0]
                       ELSE [notifier EXCEPT !.misses = notifier.misses + 1]
        /\ UNCHANGED <<fetch, disk, writers, sync, locks>>

NextFrames == NextOneSession \/ FrameTextSeen \/ FrameOther

\* one session and the text frames it receives
SpecFrames == InitLiveness /\ [][NextFrames]_vars

(***************************************************************************)
(* The comparator on its own                                               *)
(***************************************************************************)
\* date strings handed to the comparator: two that do not parse, and two
\* spellings of every instant
CmpDates == (0 - 1)..(2 * MaxTs)
CmpMsgs == CachedMessage(Ids, CmpDates, Texts, Apps)

InitCmp ==
    /\ InitCache
    /\ InitStream
    /\ IdleIo
    /\ cmp_in \in [1..3 -> CmpMsgs]
    /\ cmp_out = <<>>

\* cached_message_cmp applied to the pairs of the three messages
Compare ==
    /\ cmp_out = <<>>
    /\ cmp_out' = [ab |-> cached_message_cmp(cmp_in[1], cmp_in[2]),
                   ba |-> cached_message_cmp(cmp_in[2], cmp_in[1]),
                   bc |-> cached_message_cmp(cmp_in[2], cmp_in[3]),
                   ac |-> cached_message_cmp(cmp_in[1], cmp_in[3]),
                   aa |-> cached_message_cmp(cmp_in[1], cmp_in[1])]
    /\ UNCHANGED <<cacheVars, cmp_in, streamVars, ioVars>>

SpecCmp == InitCmp /\ [][Compare]_vars

(***************************************************************************)
(* Properties of the message cache                                         *)
(***************************************************************************)
NoDupIds(s) == \A i, j \in 1..Len(s) : i # j => s[i].id # s[j].id

Mutations == {"upsert", "reconcile", "remove"}

\* newest first among the entries whose date parses: descending timestamp,
\* ties broken by descending id
OrderedNewestFirst(s) ==
    \A i, j \in 1..Len(s) :
        (i < j /\ ParseTs(s[i].date) # None /\ ParseTs(s[j].date) # None) =>
            \/ ParseTs(s[i].date) > ParseTs(s[j].date)
            \/ ParseTs(s[i].date) = ParseTs(s[j].date) /\ s[i].id > s[j].id

\* no entry is followed by one that cached_message_cmp orders before it
SortedByCmp(s) ==
    \A i, j \in 1..Len(s) : i < j => cached_message_cmp(s[i], s[j]) # "Greater"

\* C1: from an empty cache and under a fixed cache_limit, after any sequence
\* of upsert_front calls the cache holds at most cache_limit entries and no
\* two of them share an id
C1_UpsertBoundedUnique ==
    Len(cache) <= desired_cache_limit /\ NoDupIds(cache)

\* an upsert of a new id has dropped the oldest entry to keep to the limit
C1_Witness ==
    last.op = "upsert" /\ last.truncated /\ ~last.existed
    /\ Len(cache) = desired_cache_limit

\* C2: in every reachable state of the cache no two entries share an id
C2_NoDuplicateIds == NoDupIds(cache)

\* C3: after every cache mutation the cache length is at most the
\* cache_limit in effect at that mutation
C3_LengthWithinLimit ==
    last.op \in Mutations => Len(cache) <= desired_cache_limit

\* C4 as claimed: after every cache mutation the cache is ordered newest
\* first, by descending timestamp and descending id on ties
C4_OrderedAfterEveryMutation ==
    last.op \in Mutations => OrderedNewestFirst(cache)

\* C4 as amended: after every reconcile the cache is ordered newest first
\* (descending timestamp, descending id on ties), and an upsert_front leaves
\* the live message at the head of the cache whatever its timestamp
C4_OrderedAfterReconcile ==
    /\ last.op = "reconcile" => OrderedNewestFirst(cache)
    /\ last.op = "upsert" => (Len(cache) >= 1 /\ cache[1].id = last.id)

\* a reconcile has left two entries of different timestamps in the cache
C4_Witness ==
    /\ last.op = "reconcile" /\ last.changed
    /\ \E i, j \in 1..Len(cache) :
          /\ i < j
          /\ ParseTs(cache[i].date) # None /\ ParseTs(cache[j].date) # None
          /\ ParseTs(cache[i].date) # ParseTs(cache[j].date)

\* C5: after any reconcile call the cache is sorted by the ordering rule
\* and holds no duplicate ids
C5_ReconcileSortedUnique ==
    last.op = "reconcile" => (SortedByCmp(cache) /\ NoDupIds(cache))

\* C7 as claimed: a live message that a following reconcile's fetched set
\* omits stays in the cache when it is within the cache_limit-sized
\* surviving set of cache and fetched set merged and truncated
C7_OmittedLiveMessageSurvives ==
    (last.op = "reconcile" /\ last.omit = "in") => last.id \in CacheIds(cache)

\* C7 as amended: a live message that a following reconcile's fetched set
\* omits is no longer in the cache after the reconcile, which replaces the
\* cache by the normalized fetched set, keeps to the limit and returns Ok
C7_OmittedLiveMessageDropped ==
    (last.op = "reconcile" /\ last.omit # "none") =>
        /\ last.id \notin CacheIds(cache)
        /\ last.changed /\ last.ok
        /\ Len(cache) <= desired_cache_limit

\* a reconcile has followed the upsert of a live message that its fetched
\* set omits and that the merged, truncated set would have kept
C7_Witness ==
    last.op = "reconcile" /\ last.omit = "in" /\ cache # <<>>

\* C8: a reconcile whose normalized fetched set equals the cache mutates
\* nothing, spawns no persistence write and emits no event; a reconcile
\* repeated with the same fetched set is such a no-op
C8_ReconcileIdempotent ==
    /\ (last.op = "reconcile" /\ last.same) =>
          (~last.changed /\ ~last.mutated /\ ~last.persisted /\ last.events = {})
    /\ \A fresh \in FreshSets :
          LET first == Replaced(cache, fresh, desired_cache_limit)
              second == Replaced(first.cache, fresh, desired_cache_limit)
          IN  ~second.changed /\ second.cache = first.cache

\* a reconcile has found a non-empty cache equal to its normalized fetched set
C8_Witness ==
    last.op = "reconcile" /\ last.same /\ cache # <<>>

\* C9: every remove returns Ok, spawns a persistence write, emits the
\* changed events and leaves the id absent, whether or not the id was
\* present; a remove that repeats the previous remove leaves the cache as
\* it was
C9_RemoveTwice ==
    /\ last.op = "remove" =>
          /\ last.ok /\ last.persisted
          /\ last.events = {"messages-synced", "messages-updated"}
          /\ last.id \notin CacheIds(cache)
    /\ (last.op = "remove" /\ last.again) => (~last.mutated /\ ~last.existed)

\* a remove has repeated the previous remove on a non-empty cache
C9_Witness ==
    last.op = "remove" /\ last.again /\ cache # <<>>

\* the entries of s with the given id
WithId(s, id) == {i \in 1..Len(s) : s[i].id = id}

\* C21: an upsert_front of a message whose id is already cached replaces the
\* entry (the id is at the head afterwards, the cache has not grown and
\* holds no more entries of that id than before) and does not consider the
\* Notifier; the Notifier is considered only when the id was not cached
\* before the call
C21_ExistingIdNotNotified ==
    [][last'.op = "upsert" =>
          /\ last'.id \in CacheIds(cache) =>
                /\ ~last'.notify
                /\ cache'[1].id = last'.id
                /\ Cardinality(WithId(cache', last'.id)) <= Cardinality(WithId(cache, last'.id))
                /\ Len(cache') <= Len(cache)
          /\ last'.notify => last'.id \notin CacheIds(cache)]_vars

\* a cached id, not at the head, has been upserted again
C21_Witness ==
    /\ last.op = "upsert" /\ last.existed /\ ~last.notify
    /\ Len(cache) >= 2 /\ cache[1].id = last.id
    /\ last.mutated

\* C22: every id delivered on the stream has had the Notifier called for it
\* exactly once, whatever reconciliations and removals came in between
C22_NotifiedExactlyOnce ==
    \A id \in notifier.delivered : notifier.calls[id] = 1

\* what does hold: the Notifier is called at a delivery exactly when the id is
\* not in the cache at that moment
NotifiedWhenAbsent ==
    [][\A id \in Ids :
          notifier'.calls[id] = notifier.calls[id] + 1
              <=> (id \notin CacheIds(cache) /\ id \in notifier'.delivered
                   /\ last'.op = "upsert" /\ last'.id = id /\ notifier' # notifier)]_vars

(***************************************************************************)
(* Properties of the comparator                                            *)
(***************************************************************************)
Flip(o) == IF o = "Less" THEN "Greater" ELSE IF o = "Greater" THEN "Less" ELSE "Equal"

\* C6: cached_message_cmp is a total order; an entry whose timestamp does
\* not parse sorts after every entry whose timestamp parses; two entries
\* with valid timestamps order by descending timestamp, then descending id;
\* two entries with unparsable timestamps order by descending id
C6_ComparatorOrder ==
    cmp_out # <<>> =>
        LET a == cmp_in[1]
            b == cmp_in[2]
            ta == ParseTs(a.date)
            tb == ParseTs(b.date)
        IN  /\ cmp_out.aa = "Equal"
            /\ cmp_out.ba = Flip(cmp_out.ab)
            /\ (cmp_out.ab # "Greater" /\ cmp_out.bc # "Greater") => cmp_out.ac # "Greater"
            /\ (ta = None /\ tb # None) => cmp_out.ab = "Greater"
            /\ (ta # None /\ tb = None) => cmp_out.ab = "Less"
            /\ (ta # None /\ tb # None /\ ta # tb) => cmp_out.ab = IntCmp(tb, ta)
            /\ (ta # None /\ tb # None /\ ta = tb) => cmp_out.ab = IntCmp(b.id, a.id)
            /\ (ta = None /\ tb = None) => cmp_out.ab = IntCmp(b.id, a.id)

\* the task t leaves its exit cleanup in this step
CleanupStep(t) == At(t, "cleanup") /\ tasks'[t].pc = "exit_emit"

\* the terminal fields of the runtime state
Terminal(r) == <<r.stop_tx, r.should_run, r.backoff_seconds>>

\* C10: a supervisor task that runs its exit cleanup after a restart has
\* bumped the epoch and created a newer task leaves stop_tx, should_run and
\* backoff_seconds as the newer task has them; only the task whose captured
\* epoch equals the current epoch clears them.
C10_EpochGuardedCleanup ==
    [][\A t \in Tasks :
         CleanupStep(t) =>
           IF tasks[t].epoch = runtime.stream_epoch
           THEN Terminal(runtime') = <<None, FALSE, 0>>
           ELSE Terminal(runtime') = Terminal(runtime)]_vars

\* a superseded task has skipped the clearing while the newer task holds the
\* stop handle, is meant to run and has recorded a backoff
C10_Witness ==
    \E t \in Tasks, u \in Tasks :
        /\ tasks[t].cleanup = "skipped"
        /\ tasks[u].epoch > tasks[t].epoch
        /\ tasks[u].epoch = runtime.stream_epoch
        /\ runtime.stop_tx = u
        /\ runtime.should_run
        /\ runtime.backoff_seconds > 0

(***************************************************************************)
(* Properties of the stream session supervisor                             *)
(***************************************************************************)
\* the phases a session writes while it runs
RunningPhases == {"Connecting", "Connected", "Backoff"}

\* the task t is past the loop of run_stream_loop and takes a step of its exit
ExitStep(t) == tasks[t].pc \in {"cleanup", "exit_emit"} /\ tasks'[t] # tasks[t]

\* C11: when a superseded supervisor task (its captured epoch differs from
\* the current epoch) exits, the connection phase written by the newer
\* session (Connecting, Connected or Backoff) stays as it is
C11_SupersededExitKeepsPhase ==
    [][\A t \in Tasks :
         (/\ ExitStep(t)
          /\ tasks[t].epoch # runtime.stream_epoch
          /\ runtime.phase_epoch = runtime.stream_epoch
          /\ runtime.connection_state \in RunningPhases)
         => runtime'.connection_state = runtime.connection_state]_vars

\* the task has been created and has not finished
Alive(t) == tasks[t].pc \notin {"none", "done"}

\* the task is connecting, connected or in backoff
InSession(t) ==
    tasks[t].pc \in {"emit_connecting", "connect", "mark_connected", "emit_connected",
                     "session", "after_ok", "after_err", "emit_backoff",
                     "record_error", "sleep"}

\* C12 as claimed: at any time at most one supervisor task is connecting,
\* connected or in backoff
C12_AtMostOneInSession ==
    Cardinality({t \in Tasks : InSession(t)}) <= 1

\* C12 as amended: at any time at most one live supervisor task has not been
\* signalled to stop, and the stop handle, when present, is the one of the
\* task of the current epoch
C12_AtMostOneUnstopped ==
    /\ Cardinality({t \in Tasks : Alive(t) /\ ~tasks[t].stop}) <= 1
    /\ \A t \in Tasks : (Alive(t) /\ ~tasks[t].stop
                          /\ tasks[t].pc \notin {"cleanup", "exit_emit"})
                        => runtime.stop_tx = t
    /\ runtime.stop_tx # None => tasks[runtime.stop_tx].epoch = runtime.stream_epoch

\* a stopped task is still in its session while the task that replaced it is
\* in its own
C12_Witness ==
    \E t \in Tasks, u \in Tasks :
        /\ t # u
        /\ tasks[t].stop /\ tasks[t].pc = "session"
        /\ ~tasks[u].stop /\ tasks[u].pc = "session"

\* the fields start_stream_internal writes when it starts a session
StartFields(r) ==
    <<r.stop_tx, r.stream_epoch, r.should_run, r.last_error, r.backoff_seconds,
      r.reconnect_attempts, r.connection_state>>

\* C13: start_stream_internal that finds a stop handle returns at once: it
\* creates no task and leaves stream_epoch, should_run, last_error,
\* backoff_seconds, reconnect_attempts and the connection phase as they were
C13_StartWithHandleIsNoop ==
    [][\A c \in Callers :
         (callers[c].pc = "start_lock" /\ callers'[c] # callers[c]
          /\ runtime.stop_tx # None)
         => /\ StartFields(runtime') = StartFields(runtime)
            /\ tasks' = tasks
            /\ callers'[c].pc = "idle" /\ callers'[c].ret = "noop"]_vars

\* a start has returned as a no-op while a session was connected
C13_Witness ==
    \E c \in Callers :
        /\ callers[c].ret = "noop" /\ callers[c].pc = "idle"
        /\ runtime.stop_tx # None
        /\ runtime.connection_state = "Connected"

\* the raw backoffs of the 1st .. 6th error exit of a task; 30 from then on
ExpectedBackoff == <<1, 2, 4, 8, 16, 30>>

\* C14: within one supervisor task the raw backoff slept after the 1st..6th
\* error exit is 1, 2, 4, 8, 16, 30 seconds and stays at 30 afterwards, and
\* the jitter added to each sleep is in [0, 500) milliseconds
C14_BackoffSchedule ==
    \A t \in Tasks :
        tasks[t].pc = "sleep" =>
            /\ tasks[t].errors >= 1
            /\ tasks[t].sleep_secs = IF tasks[t].errors <= Len(ExpectedBackoff)
                                     THEN ExpectedBackoff[tasks[t].errors]
                                     ELSE 30
            /\ runtime.backoff_seconds \in {0, tasks[t].sleep_secs}
            /\ tasks[t].jitter_ms >= 0 /\ tasks[t].jitter_ms < 500

\* a task sleeps its seventh backoff, still 30 seconds, with the largest jitter
C14_Witness ==
    \E t \in Tasks :
        /\ tasks[t].pc = "sleep" /\ tasks[t].errors = 7
        /\ tasks[t].sleep_secs = 30 /\ tasks[t].jitter_ms = 499

\* the fields the Err arm of run_stream_loop writes
ErrorFields(r) ==
    <<r.connection_state, r.last_error, r.backoff_seconds, r.reconnect_attempts>>

\* C15: a session attempt ended by the stop signal observed in its event
\* loop returns Ok and writes nothing, and a task that finds the stop signal
\* set when an attempt returns, Ok or Err, leaves the loop at once: no phase
\* Backoff, no write of last_error or backoff_seconds, no reconnect attempt
\* counted, no sleep
C15_StopIsNotAnError ==
    [][\A t \in Tasks :
         /\ (At(t, "session") /\ tasks'[t].pc # "session")
            => /\ (tasks'[t].ended = "stop") = (tasks'[t].pc = "after_ok")
               /\ tasks'[t].ended = "stop" => (tasks[t].stop /\ runtime' = runtime)
         /\ (tasks[t].pc \in {"after_ok", "after_err"} /\ tasks[t].stop
             /\ tasks'[t] # tasks[t])
            => /\ tasks'[t].pc = "cleanup"
               /\ ErrorFields(runtime') = ErrorFields(runtime)
               /\ tasks'[t].errors = tasks[t].errors
               /\ tasks'[t].sleep_secs = 0]_vars

\* one task has left its loop from the Err arm without recording the error
C15_Witness ==
    \E t \in Tasks :
        /\ tasks[t].left = "err" /\ tasks[t].ended = "closed" /\ tasks[t].errors = 0
        /\ ~runtime.last_error /\ runtime.reconnect_attempts = 0

\* another task has left its loop from the Ok arm, the stop signal observed
\* in its event loop
C15_WitnessOk ==
    \E t \in Tasks : tasks[t].left = "ok" /\ tasks[t].ended = "stop"

\* the session attempt of task t has just ended with a close frame or the
\* end of the inbound stream, the stop signal not set
ClosedByServer(t) ==
    /\ tasks[t].pc = "after_err" /\ tasks[t].ended \in {"closed", "ended"}
    /\ ~tasks[t].stop

\* C16: a server close frame or an end of the inbound stream received while
\* the stop signal is not set ends the attempt with an error; unless stop is
\* requested meanwhile the supervisor then writes phase Backoff, records the
\* error, sleeps, and makes a new connection attempt, writing phase
\* Connecting; a supervisor never leaves its loop unless the stop signal is set
C16_CloseIsRecoverable ==
    /\ [](\A t \in Tasks : tasks[t].pc \in {"cleanup", "exit_emit", "done"} => tasks[t].stop)
    /\ [][\A t \in Tasks :
            /\ (At(t, "emit_backoff") /\ tasks'[t].pc # tasks[t].pc)
               => runtime'.connection_state = "Backoff"
            /\ (At(t, "record_error") /\ tasks'[t].pc # tasks[t].pc)
               => (runtime'.last_error /\ tasks'[t].pc = "sleep")
            /\ (At(t, "emit_connecting") /\ tasks'[t].pc # tasks[t].pc)
               => (runtime'.connection_state = "Connecting" /\ tasks'[t].pc = "connect")]_vars
    /\ \A t \in Tasks :
          ClosedByServer(t) ~> (tasks[t].stop \/ tasks[t].pc = "sleep")
    /\ \A t \in Tasks :
          (tasks[t].pc = "sleep" /\ ~tasks[t].stop) ~>
              (tasks[t].stop \/ tasks[t].pc = "connect")

\* after a close frame and its backoff the task is connecting again
C16_Witness ==
    \E t \in Tasks :
        /\ tasks[t].pc = "connect" /\ tasks[t].ended = "closed"
        /\ tasks[t].errors = 1 /\ ~tasks[t].stop
        /\ runtime.connection_state = "Connecting"

(***************************************************************************)
(* Properties of the snapshot fetch                                        *)
(***************************************************************************)
\* a page request is answered
PageStep == fetch.pc = "request" /\ fetch'.requests = fetch.requests + 1

\* the ids of the messages the step added to fresh
AddedIds == {fetch'.fresh[i].id : i \in (Len(fetch.fresh) + 1)..Len(fetch'.fresh)}

\* the page just taken has the minimum id the page before it had
SameCursor ==
    /\ fetch.since # None
    /\ fetch.since \in AddedIds
    /\ \A id \in AddedIds : id >= fetch.since

\* the call ends by handing fresh to replace_message_cache
CommitStep == fetch.pc = "commit" /\ fetch'.pc = "idle"

\* C18: a snapshot fetch terminates for every server behaviour: a call that
\* has started always ends.
C18_FetchTerminates == (fetch.pc # "idle") ~> (fetch.pc = "idle")

\* The pagination loop by itself is bounded: every page request that does not
\* end the loop adds a message to fresh, which never holds more than
\* cache_limit messages, so a call sends at most cache_limit page requests; a
\* page whose minimum id is the cursor it was asked with ends the loop, and
\* the messages accumulated so far (that page's included) are what
\* replace_message_cache reconciles.
PaginationBounded ==
    [][/\ fetch'.requests <= fetch'.limit
       /\ Len(fetch'.fresh) <= fetch'.limit
       /\ (PageStep /\ fetch'.pc = "request") =>
             /\ Len(fetch'.fresh) > Len(fetch.fresh)
             /\ fetch'.requests <= Len(fetch'.fresh)
       /\ (PageStep /\ SameCursor) =>
             /\ fetch'.pc = "commit"
             /\ Len(fetch'.fresh) > Len(fetch.fresh)
       /\ (fetch.pc = "commit" /\ fetch' # fetch) => CommitStep
       /\ CommitStep =>
             /\ fetch'.out = "ok"
             /\ last'.op = "reconcile"
             /\ cache' = Replaced(cache, fetch.fresh, fetch.limit).cache]_vars

PaginationStalled ==
    /\ fetch.stalled
    /\ fetch.out = "ok"
    /\ fetch.requests >= 2
    /\ Len(fetch.fresh) < fetch.limit
    /\ last.op = "reconcile"
    /\ cache # <<>>

\* the page request just answered failed
FailedStep == PageStep /\ fetch'.err \in FetchErrors

\* C19: a snapshot fetch is all-or-nothing: a page request that fails, at
\* whatever page index, ends the call with an error, and neither that step nor
\* any step of the call before it touches the cache, persists it or emits an
\* event; only the last step of a call that succeeded does.
C19_FailedFetchLeavesNoTrace ==
    [][/\ FailedStep =>
             /\ fetch'.pc = "idle"
             /\ fetch'.out = "err"
             /\ UNCHANGED cacheVars
       /\ (fetch' # fetch /\ ~CommitStep) => UNCHANGED cacheVars
       /\ CommitStep => fetch.err = "none"]_vars

C19_Witness ==
    /\ fetch.out = "err"
    /\ fetch.err \in FetchErrors
    /\ fetch.requests >= 2
    /\ Len(fetch.fresh) > 0
    /\ cache # <<>>
    /\ \E i \in 1..Len(fetch.fresh) : fetch.fresh[i].id \notin CacheIds(cache)

(***************************************************************************)
(* Properties of the cache file                                            *)
(***************************************************************************)
\* setup runs over a cache file that exists and is corrupt
CorruptStartup == disk.proc = "down" /\ disk'.proc # "down" /\ disk.file \in {"bad_json", "bad_utf8"}

\* C20: when the cache file exists and is corrupt (no valid text, or text
\* that is no message array), startup succeeds with an empty cache and the
\* corrupt file is set aside under a name no earlier backup has: it is no
\* longer messages.json, it is among the backups, and every earlier backup is
\* still there.
C20_CorruptFileIsSetAside ==
    [][CorruptStartup =>
          /\ disk'.proc = "up"
          /\ cache' = <<>>
          /\ disk'.file = "absent"
          /\ \E b \in disk'.backups : b.gen = disk.gen
          /\ \A b \in disk.backups : b \in disk'.backups]_vars

\* the undecodable-text half of the statement, where the suffix is free
BadJsonIsSetAside ==
    [][(CorruptStartup /\ disk.file = "bad_json" /\ disk'.load = "fresh") =>
          /\ disk'.proc = "up"
          /\ cache' = <<>>
          /\ disk'.file = "absent"
          /\ \E b \in disk'.backups : b.gen = disk.gen]_vars

\* C25: setup errors fail the calling operation and are never retried: a
\* start_stream that returns a setup error has spawned no task and changed no
\* runtime field, and a task whose attempt ended on a configuration error (the
\* token is no header value) does not go into the backoff sleep
C25_SetupErrorsNotRetried ==
    /\ [][\A c \in Callers :
             (callers[c].pc = "start_setup" /\ callers'[c].ret = "err")
                 => UNCHANGED <<runtime, tasks>>]_vars
    /\ [](\A t \in Tasks : tasks[t].ended = "config" => tasks[t].pc # "sleep")

\* the half of the statement about start_stream
SetupErrorSpawnsNothing ==
    [][\A c \in Callers :
          (callers[c].pc = "start_setup" /\ callers'[c].ret = "err")
              => UNCHANGED <<runtime, tasks>>]_vars

\* The Ok arm of run_stream_loop is entered only with the stop signal set:
\* stream_once returns Ok from the stop branch alone, and a stop channel never
\* goes back to false. The arm's path for a session that ended without error
\* and without stop (phase Disconnected, next attempt at once) is never taken.
OkArmOnlyAfterStop ==
    \A t \in Tasks : tasks[t].pc = "after_ok" => tasks[t].stop /\ tasks[t].ended = "stop"

\* the task has been handed to the runtime (tauri::async_runtime::spawn)
Spawned(t) == tasks[t].pc \notin {"none", "created"}

\* the task t is spawned in this step
SpawnStep(t) == tasks[t].pc = "created" /\ tasks'[t].pc # "created"

\* the task whose channel and epoch were created last; None when there is none
LastCreated ==
    IF \A t \in Tasks : tasks[t].pc = "none" THEN None
    ELSE CHOOSE t \in Tasks :
            tasks[t].pc # "none" /\ \A u \in Tasks : u > t => tasks[u].pc = "none"

\* C27 as claimed: every task, when it is spawned, has an epoch greater than
\* the epoch of every task spawned before it, and stream_epoch is its epoch
C27_EpochsFollowSpawn ==
    [][\A t \in Tasks :
          SpawnStep(t) =>
              /\ \A u \in Tasks \ {t} : Spawned(u) => tasks[u].epoch < tasks[t].epoch
              /\ runtime.stream_epoch = tasks[t].epoch]_vars

\* C27 as amended: epochs grow in the order in which start_stream creates
\* the tasks under the runtime lock, and stream_epoch is the epoch of the task
\* created last; a task spawned after a task with a greater epoch has had its
\* stop signal sent before it is spawned; and when restart_stream spawns its
\* task every other task has had its stop signal sent
C27_EpochsFollowCreation ==
    /\ [](\A t, u \in Tasks :
             (t < u /\ tasks[u].pc # "none") =>
                 tasks[t].pc # "none" /\ tasks[t].epoch < tasks[u].epoch)
    /\ [](runtime.stream_epoch = IF LastCreated = None THEN 0 ELSE tasks[LastCreated].epoch)
    /\ [][\A t \in Tasks :
             SpawnStep(t) =>
                 /\ (\E u \in Tasks \ {t} : Spawned(u) /\ tasks[u].epoch > tasks[t].epoch)
                        => tasks[t].stop
                 /\ (\E c \in Callers : callers[c].op = "restart" /\ callers[c].task = t)
                        => \A u \in Tasks \ {t} : tasks[u].pc # "none" => tasks[u].stop]_vars

\* restart_stream has returned: the old task has its stop signal, the new
\* task is spawned with the greater epoch, which is stream_epoch
C27_Witness ==
    /\ callers["sync"].ret = "ok"
    /\ tasks[1].stop /\ tasks[1].epoch = 1
    /\ Spawned(2) /\ ~tasks[2].stop /\ tasks[2].epoch = 2
    /\ runtime.stream_epoch = 2 /\ runtime.stop_tx = 2

\* the task t leaves the program point pc in this step
Leaves(t, pc) == tasks[t].pc = pc /\ tasks'[t].pc # pc

\* C28: an attempt that ended with an error while stop is not set goes on to
\* set the phase Backoff, then to store last_error, the delay it is about to
\* sleep as backoff_seconds and reconnect_attempts one higher; no other step
\* changes reconnect_attempts except the locked section of a start_stream
\* that creates a task, which sets it to 0
C28_ErrorExitRecorded ==
    [][/\ \A t \in Tasks :
             /\ (Leaves(t, "after_err") /\ ~tasks[t].stop) => tasks'[t].pc = "emit_backoff"
             /\ Leaves(t, "emit_backoff") =>
                   /\ runtime'.connection_state = "Backoff"
                   /\ tasks'[t].pc = "record_error"
             /\ Leaves(t, "record_error") =>
                   /\ runtime'.last_error
                   /\ runtime'.backoff_seconds = tasks[t].backoff_secs
                   /\ runtime'.reconnect_attempts = runtime.reconnect_attempts + 1
                   /\ tasks'[t].pc = "sleep"
                   /\ tasks'[t].sleep_secs = tasks[t].backoff_secs
       /\ runtime'.reconnect_attempts # runtime.reconnect_attempts =>
             \/ \E t \in Tasks : Leaves(t, "record_error")
             \/ /\ runtime'.reconnect_attempts = 0
                /\ \E c \in Callers :
                      /\ callers[c].pc = "start_lock" /\ callers'[c].pc = "start_emit"
                      /\ tasks[callers'[c].task].pc = "none"
                      /\ tasks'[callers'[c].task].pc = "created"]_vars

\* a task sleeps its first backoff with the error recorded
C28_Witness ==
    \E t \in Tasks :
        /\ tasks[t].pc = "sleep" /\ ~tasks[t].stop /\ tasks[t].sleep_secs = 1
        /\ runtime.connection_state = "Backoff"
        /\ runtime.last_error
        /\ runtime.backoff_seconds = 1
        /\ runtime.reconnect_attempts = 1

\* C29: a spawned task whose stop signal has been sent, wherever it is
\* (before the event loop, connecting, in the event loop, in the backoff
\* sleep), eventually leaves its loop and runs its exit cleanup
C29_StopReachesCleanup ==
    \A t \in Tasks :
        (tasks[t].stop /\ Spawned(t)) ~> (tasks[t].cleanup # "pending")

\* a task stopped after an error has left at the top of the loop, behind its
\* backoff sleep, and has run its cleanup
C29_Witness ==
    \E t \in Tasks :
        /\ tasks[t].stop /\ tasks[t].errors >= 1 /\ tasks[t].left = "top"
        /\ tasks[t].cleanup # "pending"

\* a task stopped in or before its event loop has left through the Ok arm
StoppedThroughOkArm ==
    \E t \in Tasks :
        tasks[t].stop /\ tasks[t].left = "ok" /\ tasks[t].cleanup # "pending"

(***************************************************************************)
(* Properties of the select loop                                           *)
(***************************************************************************)
\* the task t handles an inbound frame that is no close frame in this step
FrameStep(t) ==
    At(t, "session") /\ tasks'[t].last_activity_at # tasks[t].last_activity_at

\* the task t sends a liveness ping in this step
ProbeStep(t) == At(t, "session") /\ tasks'[t].probes > tasks[t].probes

\* the task t runs a liveness check in this step and stays in its session
CheckPassedStep(t) ==
    /\ At(t, "session") /\ tasks'[t].pc = "session"
    /\ tasks'[t].liveness_at # tasks[t].liveness_at

Silence(t) == env.now - tasks[t].last_activity_at
Waited(t) == env.now - tasks[t].pending_ping_since
Pending(t) == tasks[t].pending_ping_since # NoTime

\* C17: in a connected session a liveness probe is sent only by a liveness
\* check that finds the connection silent for at least the idle threshold
\* and no probe pending, so at most one probe is pending at a time; a check
\* that finds a probe pending for at least the grace window fails the
\* session with a liveness timeout, and the session fails so only then; an
\* inbound frame (text, ping, pong or other) cancels the pending probe and
\* the session continues
C17_LivenessProbe ==
    /\ [](\A t \in Tasks :
            At(t, "session") =>
              /\ tasks[t].probes \in {0, 1}
              /\ Pending(t) = (tasks[t].probes = 1)
              /\ Pending(t) => tasks[t].last_activity_at + STREAM_LIVENESS_IDLE_SECS
                                 <= tasks[t].pending_ping_since)
    /\ [][\A t \in Tasks :
            /\ ProbeStep(t) =>
                 /\ Silence(t) >= STREAM_LIVENESS_IDLE_SECS /\ ~Pending(t)
                 /\ tasks'[t].pending_ping_since = env.now
                 /\ tasks'[t].pc = "session"
            /\ (At(t, "session") /\ tasks'[t].ended = "liveness"
                /\ tasks'[t].pc = "after_err")
               => (Pending(t) /\ Waited(t) >= STREAM_LIVENESS_PING_GRACE_SECS)
            /\ CheckPassedStep(t) =>
                 ~(Pending(t) /\ Waited(t) >= STREAM_LIVENESS_PING_GRACE_SECS)
            /\ (FrameStep(t) /\ Pending(t)) =>
                 /\ tasks'[t].pending_ping_since = NoTime
                 /\ tasks'[t].last_activity_at = env.now
                 /\ tasks'[t].pc = "session" \/ tasks'[t].ended = "pong_send"]_vars

\* a session has failed with a liveness timeout, its probe unanswered for
\* the grace window
C17_Witness ==
    \E t \in Tasks :
        /\ tasks[t].pc = "after_err" /\ tasks[t].ended = "liveness"
        /\ Pending(t) /\ Waited(t) >= STREAM_LIVENESS_PING_GRACE_SECS
        /\ tasks[t].probes = 1

\* a frame has cancelled a pending probe and the session goes on
C17_WitnessCancelled ==
    \E t \in Tasks :
        /\ tasks[t].pc = "session" /\ tasks[t].cancelled /\ ~Pending(t)

\* a text frame that does not parse is handled in this step
MissStep == notifier'.misses = notifier.misses + 1

\* C23: a text frame that fails to parse is dropped: the cache, the record
\* of persistence writes, events and notifications and last_message_id are
\* unchanged, and the session stays in its select loop, where the next frame
\* is taken, with the phase it had; of the runtime only last_stream_event_at
\* moves
C23_ParseMissIsDropped ==
    [][MissStep =>
          /\ UNCHANGED cacheVars
          /\ \E t \in Tasks :
                /\ At(t, "session") /\ tasks'[t].pc = "session"
                /\ tasks'[t].ended = tasks[t].ended
                /\ \A u \in Tasks \ {t} : tasks'[u] = tasks[u]
          /\ runtime' = [runtime EXCEPT !.last_stream_event_at = runtime'.last_stream_event_at]]_vars

\* after a frame that did not parse the session has cached a later message
C23_Witness ==
    /\ notifier.misses > 0 /\ notifier.later
    /\ last.op = "upsert" /\ cache # <<>>
    /\ \E t \in Tasks : At(t, "session")
    /\ runtime.connection_state = "Connected"

(***************************************************************************)
(* Properties of the pagination cursor                                     *)
(***************************************************************************)
\* the smallest id among the messages of a non-empty sequence
LeastId(messages) ==
    CHOOSE id \in CacheIds(messages) : \A other \in CacheIds(messages) : id <= other

\* C30: whenever a page request after the first is about to be sent, its
\* cursor is the smallest id among all messages fetched so far by this call
C30_CursorIsLeastFetched ==
    (fetch.pc = "request" /\ fetch.requests >= 1) =>
        /\ fetch.since # None
        /\ fetch.since = LeastId(fetch.fresh)

\* the cursor of every page request after the first is the smallest id among
\* the messages taken from the page before it
CursorIsLeastOfLastPage ==
    [][(fetch.pc = "request" /\ fetch'.pc = "request" /\ fetch' # fetch) =>
          /\ Len(fetch'.fresh) > Len(fetch.fresh)
          /\ fetch'.since =
                LeastId(SubSeq(fetch'.fresh, Len(fetch.fresh) + 1, Len(fetch'.fresh)))]_vars

(***************************************************************************)
(* Properties of the persistence writers                                   *)
(***************************************************************************)
\* the file holds the whole of one captured snapshot
Complete(file) ==
    /\ file[1] # <<>>
    /\ file[1] = file[2]
    /\ file[1][1] \in writers.snaps

\* C24: whenever messages.json exists it holds one complete snapshot that
\* was the whole cache when a mutation captured it: no half is missing and
\* the two halves are of the same snapshot
C24_FileIsOneSnapshot ==
    writers.file # <<>> => Complete(writers.file)

\* the file holds the first writer's snapshot while the second writer, with
\* another snapshot, is half way through its temp file
C24_Witness ==
    /\ Len(writers.threads) = 2
    /\ writers.threads[1].snap # writers.threads[2].snap
    /\ writers.threads[1].pc = "done" /\ writers.threads[2].pc = "second"
    /\ writers.file = << <<writers.threads[1].snap>>, <<writers.threads[1].snap>> >>
    /\ writers.tmp[writers.threads[2].suffix][2] = <<>>

\* every writer thread has run to its end and none has failed: each temp file
\* has been renamed
WritersFinished ==
    /\ Len(writers.threads) >= 1
    /\ \A w \in 1..Len(writers.threads) : writers.threads[w].pc = "done"
    /\ \A n \in Suffixes : writers.tmp[n] = <<>>

\* what persist_messages_to_path leaves in the file for a cache
FileOf(messages) == << <<messages>>, <<messages>> >>

\* C31: once every scheduled write has finished, the file holds the cache as
\* it is in memory
C31_FileCatchesUp ==
    WritersFinished => writers.file = FileOf(cache)

\* once every scheduled write has finished, the file holds the snapshot of one
\* of the writers, not necessarily the last one spawned
FileIsSomeWritersSnapshot ==
    WritersFinished =>
        \E w \in 1..Len(writers.threads) : writers.file = FileOf(writers.threads[w].snap)

(***************************************************************************)
(* Properties of the reconciliation's comparison                           *)
(***************************************************************************)
\* the same length and, position by position, the same id, date and
\* priority/title/message
SameKeys(cur, normalized) ==
    /\ Len(cur) = Len(normalized)
    /\ \A i \in 1..Len(cur) :
          /\ cur[i].id = normalized[i].id
          /\ cur[i].date = normalized[i].date
          /\ cur[i].text = normalized[i].text

\* C32: when the normalized fetched set has the cache's length and agrees with
\* it position by position in id, date and priority/title/message, the
\* reconciliation leaves the cache as it is, persists nothing and emits
\* nothing, whatever the application fields of the fetched messages; when it
\* does not agree, the cache becomes the normalized set, which is persisted
\* and announced
C32_UnchangedByKeyFields ==
    [][(fetch.pc = "commit" /\ fetch'.pc = "idle") =>
          \E normalized \in {Normalized(fetch.fresh, desired_cache_limit)} :
              /\ last'.op = "reconcile"
              /\ SameKeys(cache, normalized) =>
                    /\ cache' = cache
                    /\ ~last'.changed /\ ~last'.persisted /\ last'.events = {}
              /\ ~SameKeys(cache, normalized) =>
                    /\ cache' = normalized
                    /\ last'.changed /\ last'.persisted
                    /\ last'.events = {"messages-synced", "messages-updated"}]_vars

\* a fetch has ended whose messages differ from the cache in an application
\* field only: the cache kept its entries and nothing was persisted or emitted
C32_Witness ==
    /\ fetch.pc = "idle" /\ fetch.out = "ok"
    /\ last.op = "reconcile" /\ ~last.changed /\ ~last.persisted /\ last.events = {}
    /\ Len(cache) >= 1
    /\ Normalized(fetch.fresh, desired_cache_limit) # cache
    /\ SameKeys(cache, Normalized(fetch.fresh, desired_cache_limit))

ConnectedKeepsDelay ==
    \E t \in Tasks :
        /\ tasks[t].pc = "session" /\ tasks[t].errors = 1 /\ tasks[t].backoff_secs = 2
        /\ runtime.backoff_seconds = 0 /\ runtime.connection_state = "Connected"

(***************************************************************************)
(* Properties of the outcome of a session attempt                          *)
(***************************************************************************)
\* the ways stream_once returns Err
AttemptErrors ==
    {"config", "connect", "pong_send", "ping_send", "liveness"} \cup StreamFailures

\* the session attempt of task t returns in this step
AttemptReturns(t) ==
    /\ tasks[t].pc \in {"connect", "session"}
    /\ tasks'[t].pc \in {"after_ok", "after_err"}

\* C34: a session attempt returns Ok only in a step that finds the stop signal
\* set; every other return (connection failed or timed out, close frame, end
\* of the stream, read error, pong or probe not sent, liveness timeout) is an
\* Err; a task is outside its loop only with the stop signal set, and the
\* stop signal is set only by stop_stream_internal
C34_OkOnlyWhenStopped ==
    /\ [][\A t \in Tasks :
             /\ AttemptReturns(t) =>
                   /\ tasks'[t].pc = "after_ok" =>
                         (tasks[t].stop /\ tasks[t].pc = "session" /\ tasks'[t].ended = "stop")
                   /\ tasks'[t].pc = "after_err" => tasks'[t].ended \in AttemptErrors
             /\ (tasks'[t].stop /\ ~tasks[t].stop) =>
                   \E c \in Callers : callers[c].pc = "stop_lock" /\ callers'[c].pc = "stop_emit"]_vars
    /\ [](\A t \in Tasks :
             tasks[t].pc \in {"cleanup", "exit_emit", "done"} => tasks[t].stop)

\* an attempt has ended because the probe could not be sent: an Err, the stop
\* signal not set, the task still in its loop
C34_Witness ==
    \E t \in Tasks :
        tasks[t].pc = "after_err" /\ tasks[t].ended = "ping_send" /\ ~tasks[t].stop

(***************************************************************************)
(* Properties of a task after its stop signal                              *)
(***************************************************************************)
\* the task t takes a step of its own
TaskStep(t) == tasks'[t] # tasks[t] /\ tasks'[t].stop = tasks[t].stop

\* C35: a step of a task whose stop signal has been sent leaves the phase as
\* it is or sets it to Disconnected, leaves last_connected_at, last_error and
\* reconnect_attempts as they are, and leaves backoff_seconds as it is or
\* sets it to 0
C35_StoppedTaskWritesNothing ==
    [][\A t \in Tasks :
          (tasks[t].stop /\ TaskStep(t)) =>
              /\ runtime'.connection_state \in {runtime.connection_state, "Disconnected"}
              /\ runtime'.last_connected_at = runtime.last_connected_at
              /\ runtime'.last_error = runtime.last_error
              /\ runtime'.reconnect_attempts = runtime.reconnect_attempts
              /\ runtime'.backoff_seconds \in {runtime.backoff_seconds, 0}]_vars

\* a task whose stop signal has been sent begins no further attempt and no
\* further backoff once it reaches one of the stop checks of its loop
StoppedTaskLeavesAtCheck ==
    [][\A t \in Tasks :
          (tasks[t].stop /\ TaskStep(t)
           /\ tasks[t].pc \in {"check_top", "after_ok", "after_err"})
          => tasks'[t].pc = "cleanup" /\ runtime' = runtime]_vars

(***************************************************************************)
(* Properties of delete_message                                            *)
(***************************************************************************)
\* C36: an id that delete_message has removed from the cache is never in the
\* cache again
C36_RemovedStaysAway ==
    \A id \in sync.removed : id \notin CacheIds(cache)

\* the refresh fetch spawned by delete_message never holds a removed id
RefreshIsClean ==
    \A id \in sync.removed : id \notin CacheIds(sync.calls["refresh"].fresh)

(***************************************************************************)
(* Properties of the diagnostics snapshot                                  *)
(***************************************************************************)
\* snapshot_runtime(app): the fields of the runtime read under its lock; every
\* state is between two locked sections, so a snapshot can be taken in it
snapshot_runtime ==
    [connection_state |-> runtime.connection_state,
     should_run |-> runtime.should_run,
     last_connected_at |-> runtime.last_connected_at,
     last_stream_event_at |-> runtime.last_stream_event_at,
     last_error |-> runtime.last_error,
     backoff_seconds |-> runtime.backoff_seconds,
     reconnect_attempts |-> runtime.reconnect_attempts]

\* C37: a snapshot that reports Backoff reports an error and a delay of at
\* least 1 second, and a snapshot that reports Connected reports no error and
\* a delay of 0
C37_SnapshotConsistent ==
    /\ snapshot_runtime.connection_state = "Backoff" =>
          (snapshot_runtime.last_error /\ snapshot_runtime.backoff_seconds >= 1)
    /\ snapshot_runtime.connection_state = "Connected" =>
          (~snapshot_runtime.last_error /\ snapshot_runtime.backoff_seconds = 0)

\* within one session a snapshot that reports Connected reports no error and
\* a delay of 0
ConnectedSnapshotIsClean ==
    snapshot_runtime.connection_state = "Connected" =>
        (~snapshot_runtime.last_error /\ snapshot_runtime.backoff_seconds = 0)

\* a task that sleeps its backoff with the phase still Backoff has written the
\* error and the delay
SleepingSnapshotIsComplete ==
    \A t \in Tasks :
        (tasks[t].pc = "sleep" /\ snapshot_runtime.connection_state = "Backoff"
         /\ runtime.phase_epoch = tasks[t].epoch /\ runtime.stream_epoch = tasks[t].epoch
         /\ ~tasks[t].stop)
        => (snapshot_runtime.last_error /\ snapshot_runtime.backoff_seconds >= 1)

(***************************************************************************)
(* Properties of the liveness thresholds                                   *)
(***************************************************************************)
\* the session of task t ends with a liveness timeout in this step
TimeoutStep(t) ==
    At(t, "session") /\ tasks'[t].pc = "after_err" /\ tasks'[t].ended = "liveness"

\* the task t tries to send a probe in this step, sent or not
ProbeAttempt(t) ==
    \/ ProbeStep(t)
    \/ At(t, "session") /\ tasks'[t].pc = "after_err" /\ tasks'[t].ended = "ping_send"

\* C38: checks are 15 s apart; a probe is sent only when the last inbound
\* frame is at least 90 s old, and a session fails with a liveness timeout
\* only when the last inbound frame is at least 120 s old
C38_LivenessThresholds ==
    /\ [](STREAM_LIVENESS_CHECK_INTERVAL_SECS = 15
          /\ STREAM_LIVENESS_IDLE_SECS = 90
          /\ STREAM_LIVENESS_PING_GRACE_SECS = 30)
    /\ [][\A t \in Tasks :
             /\ ProbeAttempt(t) => Silence(t) >= 90
             /\ TimeoutStep(t) => Silence(t) >= 120]_vars

\* a session has failed with a liveness timeout exactly 120 s after its last
\* inbound frame
C38_Witness ==
    \E t \in Tasks :
        /\ tasks[t].pc = "after_err" /\ tasks[t].ended = "liveness"
        /\ Silence(t) = 120

\* a probe is pending that was sent exactly 90 s after the last inbound frame
ProbeAtThreshold ==
    \E t \in Tasks :
        /\ tasks[t].pc = "session" /\ Pending(t)
        /\ tasks[t].pending_ping_since - tasks[t].last_activity_at = 90

(***************************************************************************)
(* Properties of recover_stream                                            *)
(***************************************************************************)
\* the command of caller c leaves the program point pc in this step
CallerLeaves(c, pc) == callers[c].pc = pc /\ callers'[c].pc # pc

\* the read of recover_stream: nothing changes; the command returns when
\* should_run is false or the phase is Connected or Connecting, and goes on to
\* stop_stream_internal when should_run is true and the phase is Backoff or
\* Disconnected
RecoverReadStep(c) ==
    CallerLeaves(c, "recover_read") =>
        /\ runtime' = runtime /\ tasks' = tasks
        /\ IF ~runtime.should_run \/ runtime.connection_state \in {"Connected", "Connecting"}
           THEN callers'[c].pc = "idle"
           ELSE /\ runtime.connection_state \in {"Backoff", "Disconnected"}
                /\ callers'[c].pc = "stop_lock"

\* the stop of recover_stream: the current task gets the stop signal
RecoverStopStep(c) ==
    CallerLeaves(c, "stop_lock") =>
        /\ runtime.stop_tx # None => tasks'[runtime.stop_tx].stop
        /\ runtime'.stop_tx = None /\ ~runtime'.should_run

\* the start of recover_stream creates a task: a new epoch, reconnect_attempts
\* 0, no delay shown, and a task whose delay is 1 second
RecoverCreates(c) ==
    \E n \in Tasks :
        /\ tasks[n].pc = "none" /\ tasks'[n].pc = "created"
        /\ callers'[c].task = n
        /\ tasks'[n].epoch = runtime.stream_epoch + 1
        /\ \A u \in Tasks \ {n} : tasks[u].pc # "none" => tasks[u].epoch < tasks'[n].epoch
        /\ tasks'[n].backoff_secs = 1 /\ tasks'[n].errors = 0 /\ ~tasks'[n].stop
        /\ runtime'.stream_epoch = tasks'[n].epoch
        /\ runtime'.stop_tx = n /\ runtime'.should_run
        /\ runtime'.reconnect_attempts = 0 /\ runtime'.backoff_seconds = 0
        /\ ~runtime'.last_error

\* C39 as claimed: a recover_stream that passes its read stops the current
\* task and always goes on to create and spawn a new task
C39_RecoverAlwaysRestarts ==
    [][\A c \in Callers :
          callers[c].op = "recover" =>
              /\ RecoverReadStep(c)
              /\ RecoverStopStep(c)
              /\ CallerLeaves(c, "start_setup") => callers'[c].pc = "start_lock"
              /\ CallerLeaves(c, "start_lock") => RecoverCreates(c)
              /\ CallerLeaves(c, "start_spawn") =>
                    (callers'[c].ret = "ok" /\ tasks'[callers[c].task].pc = "check_top")]_vars

\* C39 as amended: a recover_stream that passes its read stops the current
\* task; then its start returns the error when its setup fails, leaving the
\* stream stopped, returns without a task when another start has stored a
\* stop handle meanwhile, and otherwise creates and spawns a new task
C39_RecoverStopsThenStarts ==
    [][\A c \in Callers :
          callers[c].op = "recover" =>
              /\ RecoverReadStep(c)
              /\ RecoverStopStep(c)
              /\ CallerLeaves(c, "start_setup") =>
                    /\ runtime' = runtime /\ tasks' = tasks
                    /\ \/ callers'[c].pc = "start_lock"
                       \/ callers'[c].pc = "idle" /\ callers'[c].ret = "err"
              /\ CallerLeaves(c, "start_lock") =>
                    IF runtime.stop_tx # None
                    THEN /\ callers'[c].pc = "idle" /\ callers'[c].ret = "noop"
                         /\ runtime' = runtime /\ tasks' = tasks
                    ELSE RecoverCreates(c)
              /\ CallerLeaves(c, "start_spawn") =>
                    (callers'[c].ret = "ok" /\ tasks'[callers[c].task].pc = "check_top")]_vars

\* recover_stream, called while the first task was backing off, has stopped
\* it and created the second task, which it is about to spawn
C39_Witness ==
    /\ callers["sync"].op = "recover" /\ callers["sync"].pc = "start_spawn"
    /\ callers["sync"].task = 2
    /\ tasks[1].stop /\ tasks[1].errors = 1
    /\ tasks[2].pc = "created" /\ tasks[2].epoch = 2 /\ tasks[2].backoff_secs = 1
    /\ runtime.stream_epoch = 2 /\ runtime.reconnect_attempts = 0

\* recover_stream has returned an error after it stopped the stream: no task
\* holds the stop handle and should_run is false
RecoverLeftStopped ==
    /\ callers["sync"].ret = "err" /\ callers["sync"].pc = "idle"
    /\ tasks[1].stop /\ tasks[2].pc = "none"
    /\ runtime.stop_tx = None /\ ~runtime.should_run

(***************************************************************************)
(* The mutexes of AppState and the operations that take them               *)
(***************************************************************************)
\* What an operation does with the mutexes, in program order: a guard is
\* taken by .lock() and released where it goes out of scope or is dropped.
\* Everything an operation calls in between is part of its sequence.
Take(l) == [act |-> "lock", on |-> l]
Free(l) == [act |-> "unlock", on |-> l]
Section(l) == <<Take(l), Free(l)>>

\* snapshot_runtime: the guard lives to the end of the function, which calls
\* only unix_now_secs under it; emit_runtime_diagnostics emits the snapshot
\* it got back.
snapshot_runtime_locks == Section("runtime")
emit_runtime_diagnostics_locks == snapshot_runtime_locks

\* emit_connection_state: the guard lives in the `if let` block; the events
\* and emit_runtime_diagnostics follow the block.
emit_connection_state_locks == Section("runtime") \o emit_runtime_diagnostics_locks

\* a guard that is kept to the end of the function
drop_at_end(l, rest) == <<Take(l)>> \o rest \o <<Free(l)>>

\* drop(guard) before the rest of the function runs
drop_before(l, rest) == Section(l) \o rest

\* the operations that touch AppState, each with the mutexes it takes
lock_script(op) ==
    CASE op = "get_connection_state" -> Section("runtime")
      [] op = "get_runtime_diagnostics" -> snapshot_runtime_locks
      [] op = "mark_stream_activity" ->
            Section("runtime") \o emit_runtime_diagnostics_locks
      [] op = "emit_connection_state" -> emit_connection_state_locks
         \* start_stream_internal: drop(runtime), then emit_connection_state
      [] op = "start_stream_internal" ->
            drop_before("runtime", emit_connection_state_locks)
         \* stop_stream_internal: drop(runtime), then emit_connection_state
      [] op = "stop_stream_internal" ->
            drop_before("runtime", emit_connection_state_locks)
         \* recover_stream: reads under the lock in one statement, then stops
         \* and starts
      [] op = "recover_stream" ->
            Section("runtime")
            \o drop_before("runtime", emit_connection_state_locks)
            \o drop_before("runtime", emit_connection_state_locks)
         \* run_stream_loop after an error: emit_connection_state("Backoff"),
         \* the record under the lock, emit_runtime_diagnostics
      [] op = "loop_err" ->
            emit_connection_state_locks \o Section("runtime")
            \o emit_runtime_diagnostics_locks
         \* run_stream_loop on its way out
      [] op = "loop_exit" ->
            Section("runtime") \o emit_connection_state_locks
            \o emit_runtime_diagnostics_locks
         \* stream_once once connected
      [] op = "connected" ->
            Section("runtime") \o emit_connection_state_locks
            \o emit_runtime_diagnostics_locks
         \* convert_wire_message -> resolve_app_meta
      [] op = "resolve_app_meta" -> Section("app_meta")
         \* fetch_applications stores the map after the icon cache is warmed
      [] op = "fetch_applications" -> Section("app_meta")
         \* cache_and_emit_message: desired_cache_limit and messages_file
         \* run under the messages guard and take no mutex; drop(guard);
         \* the runtime block; the events; maybe_notify_message
      [] op = "cache_and_emit_message" ->
            drop_before("messages", Section("runtime"))
         \* send_macos_notification -> resolve_notification_content_image_path
      [] op = "send_macos_notification" -> Section("app_meta")
         \* replace_message_cache, then persist_current_cache_async
      [] op = "replace_message_cache" -> Section("messages") \o Section("messages")
         \* remove_message_from_cache, then persist_current_cache_async
      [] op = "remove_message_from_cache" ->
            Section("messages") \o Section("messages")
      [] op = "get_messages" -> Section("messages")
         \* apply_pause_state_to_tray clones the handles in one statement
      [] op = "apply_pause_state_to_tray" -> Section("tray_pause_menu")
      [] OTHER -> <<>>

LockOps == {"get_connection_state", "get_runtime_diagnostics",
            "mark_stream_activity", "emit_connection_state",
            "start_stream_internal", "stop_stream_internal", "recover_stream",
            "loop_err", "loop_exit", "connected", "resolve_app_meta",
            "fetch_applications", "cache_and_emit_message",
            "send_macos_notification", "replace_message_cache",
            "remove_message_from_cache", "get_messages",
            "apply_pause_state_to_tray"}

Running(th) == locks.thr[th].op # "idle"
Script(th) == lock_script(locks.thr[th].op)
Finished(th) == Running(th) /\ locks.thr[th].pos > Len(Script(th))
Upcoming(th) == Script(th)[locks.thr[th].pos]
Held(th) == {l \in Mutexes : locks.holder[l] = th}
AtLock(th) == Running(th) /\ ~Finished(th) /\ Upcoming(th).act = "lock"
AtUnlock(th) == Running(th) /\ ~Finished(th) /\ Upcoming(th).act = "unlock"

\* a thread begins an operation
lock_call(th, op) ==
    /\ ~Running(th)
    /\ locks' = [locks EXCEPT !.thr[th] = [op |-> op, pos |-> 1]]

\* Mutex::lock: returns the guard once the mutex is free; a thread that asks
\* for a mutex it holds itself never gets it
lock_acquire(th) ==
    /\ AtLock(th)
    /\ locks.holder[Upcoming(th).on] = None
    /\ locks' = [locks EXCEPT !.holder[Upcoming(th).on] = th,
                              !.thr[th].pos = @ + 1]

\* the guard goes out of scope or is dropped
lock_release(th) ==
    /\ AtUnlock(th)
    /\ locks' = [locks EXCEPT !.holder[Upcoming(th).on] = None,
                              !.thr[th].pos = @ + 1]

\* the operation returns
lock_return(th) ==
    /\ Finished(th)
    /\ locks' = [locks EXCEPT !.thr[th] = [op |-> "idle", pos |-> 0]]

Besides == UNCHANGED <<cacheVars, cmpVars, streamVars, fetch, disk, notifier,
                       writers, sync>>

LockCall == \E th \in LockThreads, op \in LockOps : lock_call(th, op) /\ Besides
LockAcquire == \E th \in LockThreads : lock_acquire(th) /\ Besides
LockRelease == \E th \in LockThreads : lock_release(th) /\ Besides
LockReturn == \E th \in LockThreads : lock_return(th) /\ Besides

NextLocks == LockCall \/ LockAcquire \/ LockRelease \/ LockReturn

InitLocks == InitCache /\ cache_limit = MaxLimit /\ IdleCmp /\ InitStream /\ IdleIo

\* the operations on AppState run by threads that contend for its mutexes
SpecLocks == InitLocks /\ [][NextLocks]_vars

\* a thread is blocked in Mutex::lock
Blocked(th) == AtLock(th) /\ locks.holder[Upcoming(th).on] # None

\* C40: a thread about to take a mutex holds none of the state locks (so it
\* never holds two, and never asks again for the one it holds), and therefore
\* the holder of a mutex another thread is blocked on is itself never
\* blocked: there is no state in which the running threads all wait.
C40_OneLockAtATime ==
    /\ \A th \in LockThreads : AtLock(th) => Held(th) \cap StateLocks = {}
    /\ \A th \in LockThreads : Cardinality(Held(th)) <= 1
    /\ \A th \in LockThreads :
          Blocked(th) => ~Blocked(locks.holder[Upcoming(th).on])

\* a live delivery waits for the runtime lock while a command's
\* emit_connection_state holds it
C40_Witness ==
    \E th, other \in LockThreads :
       /\ locks.thr[th].op = "cache_and_emit_message"
       /\ locks.thr[other].op = "stop_stream_internal"
       /\ Blocked(th)
       /\ Upcoming(th).on = "runtime"
       /\ locks.holder["runtime"] = other
       /\ locks.thr[other].pos = 4

====
